---- MODULE Spec2Model ----
(***************************************************************************)
(* AAVA: the DIGIPIN codec (src/utils/digipin.py).                         *)
(*                                                                         *)
(* Numbers.  The codec works on Python floats (IEEE binary64).  Every      *)
(* window bound, step and centre it computes is a multiple of 2^-19 degree *)
(* below 128, so it is exactly representable and is written here as an     *)
(* integer count of 2^-19 degree ("hi" units).  A coordinate passed in by  *)
(* the caller is any double: it is written [hi |-> h, lo |-> l], the value *)
(* h * 2^-19 + l * 2^-51 degrees, with l a small multiple of the double's  *)
(* unit in the last place.  FSub and FInt below are the binary64           *)
(* subtraction (round to nearest, ties to even) and the int() of the       *)
(* binary64 quotient on such values.                                       *)
(***************************************************************************)
EXTENDS Integers, Naturals, Sequences, FiniteSets, TLC

\* hi units per degree: 2^-19 degree is half the side of a level-10 cell / 9
Scale == 2^19

\* ------------------------------------------------------------- constants
MIN_LAT == (5 * Scale) \div 2
MAX_LAT == (77 * Scale) \div 2
MIN_LON == (127 * Scale) \div 2
MAX_LON == (199 * Scale) \div 2

DIGIPIN_CHARS == <<"2","3","4","5","6","7","8","9","C","F","J","K","L","M","P","T">>

LABEL_GRID ==
  << <<"F","C","9","8">>,
     <<"J","3","2","7">>,
     <<"K","4","5","6">>,
     <<"L","M","P","T">> >>

NUM_LEVELS == 10

\* the 16 symbols, as a set
Symbols == {DIGIPIN_CHARS[i] : i \in 1..Len(DIGIPIN_CHARS)}

\* reverse lookup built from LABEL_GRID: character -> (row, col), 0-based
CHAR_TO_POSITION ==
  [c \in {LABEL_GRID[r][k] : r \in 1..4, k \in 1..4} |->
     CHOOSE p \in (0..3) \X (0..3) : LABEL_GRID[p[1] + 1][p[2] + 1] = c]

\* ------------------------------------------------------- binary64 helpers
F(h) == [hi |-> h, lo |-> 0]

\* a < b, a <= b on [hi, lo] values (|lo| is far below one hi unit)
FLess(a, b) == a.hi < b.hi \/ (a.hi = b.hi /\ a.lo < b.lo)
FLeq(a, b) == a.hi < b.hi \/ (a.hi = b.hi /\ a.lo <= b.lo)

\* unit in the last place, in lo units (2^-51 degree), of a positive double
\* whose hi part is h: 2^-51 on [2,4), doubling with every binade; below 2
\* degrees every multiple of 2^-51 is representable
UlpLo(h) ==
  IF h < 4 * Scale THEN 1
  ELSE IF h < 8 * Scale THEN 2
  ELSE IF h < 16 * Scale THEN 4
  ELSE IF h < 32 * Scale THEN 8
  ELSE IF h < 64 * Scale THEN 16
  ELSE 32

\* the multiple of u nearest to l, ties to the even multiple
RoundHalfEven(l, u) ==
  LET q == l \div u
      r == l - q * u
  IN  IF 2 * r < u THEN q
      ELSE IF 2 * r > u THEN q + 1
      ELSE IF q % 2 = 0 THEN q ELSE q + 1

\* round the exact value h * 2^-19 + l * 2^-51 (h > 0) to binary64
RoundPos(h, l) ==
  LET u == UlpLo(IF l < 0 THEN h - 1 ELSE h)
  IN  [hi |-> h, lo |-> u * RoundHalfEven(l, u)]

FRound(h, l) ==
  IF h = 0 THEN [hi |-> 0, lo |-> l]
  ELSE IF h > 0 THEN RoundPos(h, l)
  ELSE LET m == RoundPos(-h, -l) IN [hi |-> -m.hi, lo |-> -m.lo]

\* a - b in binary64
FSub(a, b) == FRound(a.hi - b.hi, a.lo - b.lo)

\* int(x / step) for a double x >= 0 and an exact step: the binary64 quotient
\* of a double just below n * step stays below n, so int() gives n - 1
TruncPos(x, step) ==
  LET n == x.hi \div step
  IN  IF x.hi % step = 0 /\ x.lo < 0 /\ n > 0 THEN n - 1 ELSE n

\* int(x / step): Python's int() truncates toward zero
FInt(x, step) ==
  IF x.hi < 0 \/ (x.hi = 0 /\ x.lo < 0)
    THEN - TruncPos([hi |-> -x.hi, lo |-> -x.lo], step)
    ELSE TruncPos(x, step)

Min(a, b) == IF a <= b THEN a ELSE b


\* ------------------------------------------------------------- strings
\* A Python str is a sequence of one-character strings.
\* str.upper() on one character of the modelled character set
UpperChar(c) ==
  CASE c = "c" -> "C" [] c = "f" -> "F" [] c = "j" -> "J" [] c = "k" -> "K"
    [] c = "l" -> "L" [] c = "m" -> "M" [] c = "p" -> "P" [] c = "t" -> "T"
    [] c = "a" -> "A" [] OTHER -> c

Upper(s) == [i \in 1..Len(s) |-> UpperChar(s[i])]

\* s.replace(c, '')
Remove(s, c) == SelectSeq(s, LAMBDA x : x # c)

\* the characters str.strip() removes from both ends
Whitespace == {" ", "\t", "\n"}

RECURSIVE LStrip(_)
LStrip(s) == IF s # <<>> /\ Head(s) \in Whitespace THEN LStrip(Tail(s)) ELSE s

RECURSIVE RStrip(_)
RStrip(s) ==
  IF s # <<>> /\ s[Len(s)] \in Whitespace
    THEN RStrip(SubSeq(s, 1, Len(s) - 1)) ELSE s

Strip(s) == RStrip(LStrip(s))

\* s[a:b] for 0 <= a <= b
Slice(s, a, b) == SubSeq(s, a + 1, Min(b, Len(s)))

\* char in self.chars (a substring test; char is one character)
InChars(c) == \E i \in 1..Len(DIGIPIN_CHARS) : DIGIPIN_CHARS[i] = c

\* _clean_digipin
CleanDigipin(digipin) == Upper(Strip(Remove(Remove(digipin, "-"), " ")))

\* a faulty variant: the string is formatted as given, without cleaning it first
FormatNoClean(digipin) ==
  IF Len(digipin) # 10 THEN digipin
  ELSE Slice(digipin, 0, 3) \o <<"-">> \o Slice(digipin, 3, 6) \o <<"-">>
         \o Slice(digipin, 6, 10)

\* _format_digipin
FormatDigipin(digipin) ==
  LET clean == CleanDigipin(digipin)
  IN  IF Len(clean) # 10 THEN clean
      ELSE Slice(clean, 0, 3) \o <<"-">> \o Slice(clean, 3, 6) \o <<"-">>
             \o Slice(clean, 6, 10)

\* ------------------------------------------------------------- encode
\* a faulty variant: the edges of the box are rejected
IsStrictlyWithinBounds(latitude, longitude) ==
  /\ FLess(F(MIN_LAT), latitude) /\ FLess(latitude, F(MAX_LAT))
  /\ FLess(F(MIN_LON), longitude) /\ FLess(longitude, F(MAX_LON))

\* _is_within_bounds; latitude and longitude are doubles [hi, lo]
IsWithinBounds(latitude, longitude) ==
  /\ FLeq(F(MIN_LAT), latitude) /\ FLeq(latitude, F(MAX_LAT))
  /\ FLeq(F(MIN_LON), longitude) /\ FLeq(longitude, F(MAX_LON))

FullWindow ==
  [min_lat |-> MIN_LAT, max_lat |-> MAX_LAT, min_lon |-> MIN_LON, max_lon |-> MAX_LON]

LatStep(w) == (w.max_lat - w.min_lat) \div 4
LonStep(w) == (w.max_lon - w.min_lon) \div 4

\* a faulty variant: a latitude on a grid line goes to the row above the line
RowOfTieUp(w, latitude) ==
  LET x == FSub(F(w.max_lat), latitude)
  IN  IF x.lo = 0 /\ x.hi > 0 /\ x.hi % LatStep(w) = 0
        THEN Min((x.hi \div LatStep(w)) - 1, 3)
        ELSE Min(FInt(x, LatStep(w)), 3)

\* a faulty variant: the row is not clamped
RowOfNoClamp(w, latitude) == FInt(FSub(F(w.max_lat), latitude), LatStep(w))

\* row = int((max_lat - latitude) / lat_step); row = min(row, 3)
RowOf(w, latitude) == Min(FInt(FSub(F(w.max_lat), latitude), LatStep(w)), 3)

\* col = int((longitude - min_lon) / lon_step); col = min(col, 3)
ColOf(w, longitude) == Min(FInt(FSub(longitude, F(w.min_lon)), LonStep(w)), 3)

\* encode: update bounds to the selected cell
EncodeNarrow(w, r, c) ==
  [min_lat |-> w.max_lat - (r + 1) * LatStep(w),
   max_lat |-> w.max_lat - r * LatStep(w),
   min_lon |-> w.min_lon + c * LonStep(w),
   max_lon |-> w.min_lon + (c + 1) * LonStep(w)]

\* a faulty variant: the label is taken from the column and the row exchanged
GridAtTransposed(r, c) ==
  IF r \in -4..3 /\ c \in -4..3
    THEN LABEL_GRID[(c % 4) + 1][(r % 4) + 1]
    ELSE "IndexError"

\* self.label_grid[row][col].  A Python list takes an index from -4 to 3, a
\* negative one counting from the end; any other index raises IndexError,
\* written here as the value "IndexError".
GridAt(r, c) ==
  IF r \in -4..3 /\ c \in -4..3
    THEN LABEL_GRID[(r % 4) + 1][(c % 4) + 1]
    ELSE "IndexError"

\* one iteration of encode's loop on the loop state [win, chars, row, col]
EncodeIteration(st, latitude, longitude) ==
  LET r == RowOf(st.win, latitude)
      c == ColOf(st.win, longitude)
  IN  [win |-> EncodeNarrow(st.win, r, c),
       chars |-> Append(st.chars, GridAt(r, c)),
       row |-> r, col |-> c]

EncodeStart == [win |-> FullWindow, chars |-> <<>>, row |-> 0, col |-> 0]

\* the loop state after k iterations
RECURSIVE EncodeLoop(_, _, _)
EncodeLoop(latitude, longitude, k) ==
  IF k = 0 THEN EncodeStart
  ELSE EncodeIteration(EncodeLoop(latitude, longitude, k - 1), latitude, longitude)

\* bounds={} : the empty dict
EmptyDict == [k \in {} |-> 0]

\* the DIGIPINResult encode returns when the coordinates are out of bounds
EncodeFailure(latitude, longitude) ==
  [digipin |-> <<>>, formatted |-> <<>>,
   center_lat |-> latitude, center_lon |-> longitude,
   bounds |-> EmptyDict, resolution_meters |-> 0,
   valid |-> FALSE, error |-> <<"outside India bounds", latitude, longitude>>]

\* _calculate_resolution: the average of the two sides of the cell in metres.
\* The cosine is not evaluated here: the result is kept as the pair of
\* the spans in hi units and the centre latitude that determine it.
CalculateResolution(w) ==
  [lat_span |-> w.max_lat - w.min_lat, lon_span |-> w.max_lon - w.min_lon,
   center_lat |-> (w.min_lat + w.max_lat) \div 2]

\* the DIGIPINResult built from the final window and the characters
EncodeResult(st) ==
  [digipin |-> st.chars, formatted |-> FormatDigipin(st.chars),
   center_lat |-> F((st.win.min_lat + st.win.max_lat) \div 2),
   center_lon |-> F((st.win.min_lon + st.win.max_lon) \div 2),
   bounds |-> st.win, resolution_meters |-> CalculateResolution(st.win),
   valid |-> TRUE, error |-> <<"None">>]

\* DIGIPINValidator.encode
Encode(latitude, longitude) ==
  IF ~ IsWithinBounds(latitude, longitude) THEN EncodeFailure(latitude, longitude)
  ELSE EncodeResult(EncodeLoop(latitude, longitude, NUM_LEVELS))


\* ------------------------------------------------------------- validate
\* DIGIPINValidator.validate
Validate(digipin) ==
  LET clean == CleanDigipin(digipin)
  IN  IF Len(clean) # NUM_LEVELS THEN FALSE
      ELSE \A i \in 1..Len(clean) : InChars(Upper(clean)[i])

\* DIGIPINValidator.validate_with_details: <<is_valid, error_message>>
ValidateWithDetails(digipin) ==
  IF digipin = <<>> THEN <<FALSE, <<"DIGIPIN cannot be empty">> >>
  ELSE
    LET clean == CleanDigipin(digipin)
        invalid_chars == SelectSeq(Upper(clean), LAMBDA c : ~ InChars(c))
    IN  IF Len(clean) # NUM_LEVELS
          THEN <<FALSE, <<"DIGIPIN must be 10 characters, got", Len(clean)>> >>
        ELSE IF invalid_chars # <<>>
          THEN <<FALSE, <<"Invalid characters", invalid_chars>> >>
        ELSE <<TRUE, <<"Valid DIGIPIN">> >>

\* ------------------------------------------------------------- decode
\* a faulty variant: only the latitudes of the window are updated
DecodeNarrowLatOnly(w, r, c) ==
  [min_lat |-> w.max_lat - (r + 1) * ((w.max_lat - w.min_lat) \div 4),
   max_lat |-> w.max_lat - r * ((w.max_lat - w.min_lat) \div 4),
   min_lon |-> w.min_lon,
   max_lon |-> w.max_lon]

\* decode: update bounds to the selected cell
DecodeNarrow(w, r, c) ==
  [min_lat |-> w.max_lat - (r + 1) * ((w.max_lat - w.min_lat) \div 4),
   max_lat |-> w.max_lat - r * ((w.max_lat - w.min_lat) \div 4),
   min_lon |-> w.min_lon + c * ((w.max_lon - w.min_lon) \div 4),
   max_lon |-> w.min_lon + (c + 1) * ((w.max_lon - w.min_lon) \div 4)]

\* a faulty variant: the row and the column of the character are taken the wrong way
\* round
DecodeIterationSwapped(w, char) ==
  DecodeNarrow(w, CHAR_TO_POSITION[char][2], CHAR_TO_POSITION[char][1])

\* one iteration of decode's loop: the window after the character char
DecodeIteration(w, char) ==
  DecodeNarrow(w, CHAR_TO_POSITION[char][1], CHAR_TO_POSITION[char][2])

\* the window after the first k characters of clean
RECURSIVE DecodeLoop(_, _)
DecodeLoop(clean, k) ==
  IF k = 0 THEN FullWindow
  ELSE DecodeIteration(DecodeLoop(clean, k - 1), clean[k])

\* the DIGIPINResult decode returns for an invalid string
DecodeFailure(digipin, error_msg) ==
  [digipin |-> digipin, formatted |-> <<>>,
   center_lat |-> F(0), center_lon |-> F(0),
   bounds |-> EmptyDict, resolution_meters |-> 0,
   valid |-> FALSE, error |-> error_msg]

\* the DIGIPINResult decode builds from the final window
DecodeResult(clean, w) ==
  [digipin |-> clean, formatted |-> FormatDigipin(clean),
   center_lat |-> F((w.min_lat + w.max_lat) \div 2),
   center_lon |-> F((w.min_lon + w.max_lon) \div 2),
   bounds |-> w, resolution_meters |-> CalculateResolution(w),
   valid |-> TRUE, error |-> <<"None">>]

\* DIGIPINValidator.decode
Decode(digipin) ==
  LET v == ValidateWithDetails(digipin)
  IN  IF ~ v[1] THEN DecodeFailure(digipin, v[2])
      ELSE LET clean == Upper(CleanDigipin(digipin))
           IN  DecodeResult(clean, DecodeLoop(clean, Len(clean)))


\* ---------------------------------------------------------------- inputs
\* bounds of the model
MaxMult == 3
MaxUlps == 1
MaxCodes == 4

Levels == 1..NUM_LEVELS

\* the side of a cell at level j (1..10), in hi units
StepAt(j) == (MAX_LAT - MIN_LAT) \div (4 ^ j)

\* the doubles within MaxUlps units in the last place of the value h
Around(h) ==
  {[hi |-> h, lo |-> k * UlpLo(h)] : k \in 0..MaxUlps}
    \cup {[hi |-> h, lo |-> (- k) * UlpLo(h - 1)] : k \in 1..MaxUlps}

\* latitudes on and next to the grid lines of every level, counted from the
\* top and from the bottom of the bounding box
LatLines ==
  {MAX_LAT - m * StepAt(j) : j \in Levels, m \in 0..MaxMult}
    \cup {MIN_LAT + m * StepAt(j) : j \in Levels, m \in 0..MaxMult}

LonLines ==
  {MIN_LON + m * StepAt(j) : j \in Levels, m \in 0..MaxMult}
    \cup {MAX_LON - m * StepAt(j) : j \in Levels, m \in 0..MaxMult}

LatDoubles == UNION {Around(h) : h \in LatLines}
LonDoubles == UNION {Around(h) : h \in LonLines}

\* India Gate (28.6129, 77.2295), cut to a multiple of 2^-19 degree
GateLat == 28 * Scale + (6129 * (Scale \div 16)) \div 625
GateLon == 77 * Scale + (2295 * (Scale \div 16)) \div 625

\* a few fixed coordinates: inside a cell, on a corner of the box, outside it
BaseLat == {F(GateLat), F(MIN_LAT), F(Scale)}
BaseLon == {F(GateLon), F(MAX_LON), F(100 * Scale)}

EncodeInputs == (LatDoubles \X BaseLon) \cup (BaseLat \X LonDoubles)


\* ------------------------------------------------------------- distance
\* The haversine formula in fixed point.  Integers are 32 bits wide here, so
\* angles in radians and the values of sin, cos and sqrt carry 15 fractional
\* bits: a distance is the haversine distance to within about 1.5 km.
FixOne == 2 ^ 15

Abs(x) == IF x < 0 THEN - x ELSE x

\* a * b for fixed-point a, b >= 0
FixMul(a, b) == (a * b) \div FixOne

\* math.radians of an angle in hi units (180 * 16 / pi = 916.73 hi units of
\* 2^-19 degree make 2^-15 radian); radians(-x) = -radians(x)
Radians(x) ==
  IF x < 0 THEN - ((((- x) * 100)) \div 91673) ELSE (x * 100) \div 91673

\* x / 2
HalfOf(x) == IF x < 0 THEN - ((- x) \div 2) ELSE x \div 2

SinPos(x) ==
  LET x2 == FixMul(x, x)
      x3 == FixMul(x2, x)
      x5 == FixMul(x3, x2)
      x7 == FixMul(x5, x2)
  IN  x - (x3 \div 6) + (x5 \div 120) - (x7 \div 5040)

\* math.sin, an odd function
Sin(x) == IF x < 0 THEN - SinPos(- x) ELSE SinPos(x)

\* math.cos, an even function
Cos(x) ==
  LET x2 == FixMul(Abs(x), Abs(x))
      x4 == FixMul(x2, x2)
      x6 == FixMul(x4, x2)
      x8 == FixMul(x4, x4)
  IN  FixOne - (x2 \div 2) + (x4 \div 24) - (x6 \div 720) + (x8 \div 40320)

RECURSIVE SqrtBits(_, _, _)
SqrtBits(v, r, b) ==
  IF b = 0 THEN r
  ELSE IF r + b <= 46340 /\ (r + b) * (r + b) <= v
    THEN SqrtBits(v, r + b, b \div 2)
    ELSE SqrtBits(v, r, b \div 2)

\* math.sqrt of a value with 30 fractional bits, to 15 fractional bits
Sqrt(v) == SqrtBits(v, 0, FixOne)

AtanPos(t) ==
  LET t2 == FixMul(t, t)
      t3 == FixMul(t2, t)
      t5 == FixMul(t3, t2)
      t7 == FixMul(t5, t2)
      t9 == FixMul(t7, t2)
  IN  t - (t3 \div 3) + (t5 \div 5) - (t7 \div 7) + (t9 \div 9)

\* math.atan2(y, x) for y, x >= 0; 51472 is pi / 2
Atan2(y, x) ==
  IF x = 0 /\ y = 0 THEN 0
  ELSE IF y <= x THEN AtanPos((y * FixOne) \div x)
  ELSE 51472 - AtanPos((x * FixOne) \div y)

\* R = 6371000: Earth radius in meters
EarthRadius == 6371000

\* a with 30 fractional bits
HaversineA(lat1, lon1, lat2, lon2) ==
  LET lat1_rad == Radians(lat1)
      lat2_rad == Radians(lat2)
      delta_lat == Radians(lat2 - lat1)
      delta_lon == Radians(lon2 - lon1)
      s1 == Sin(HalfOf(delta_lat))
      s2 == Sin(HalfOf(delta_lon))
  IN  s1 * s1 + FixMul(FixMul(Cos(lat1_rad), Cos(lat2_rad)), Abs(s2)) * Abs(s2)

\* a faulty variant: cos(lat1) is used twice, cos(lat2) not at all
HaversineCosLat1(lat1, lon1, lat2, lon2) ==
  LET s1 == Sin(HalfOf(Radians(lat2 - lat1)))
      s2 == Sin(HalfOf(Radians(lon2 - lon1)))
      a == s1 * s1
             + FixMul(FixMul(Cos(Radians(lat1)), Cos(Radians(lat1))), Abs(s2)) * Abs(s2)
      c == 2 * Atan2(Sqrt(a), Sqrt(FixOne * FixOne - a))
  IN  c * (EarthRadius \div FixOne) + (c * (EarthRadius % FixOne)) \div FixOne

\* _haversine_distance, in metres; the coordinates are in hi units
HaversineDistance(lat1, lon1, lat2, lon2) ==
  LET a == HaversineA(lat1, lon1, lat2, lon2)
      c == 2 * Atan2(Sqrt(a), Sqrt(FixOne * FixOne - a))
  IN  c * (EarthRadius \div FixOne) + (c * (EarthRadius % FixOne)) \div FixOne

\* Optional[float]
None == [is_none |-> TRUE]
Some(v) == [is_none |-> FALSE, value |-> v]

\* DIGIPINValidator.distance_between
DistanceBetween(digipin1, digipin2) ==
  LET result1 == Decode(digipin1)
      result2 == Decode(digipin2)
  IN  IF ~ result1.valid \/ ~ result2.valid THEN None
      ELSE Some(HaversineDistance(result1.center_lat.hi, result1.center_lon.hi,
                                  result2.center_lat.hi, result2.center_lon.hi))

\* DIGIPINValidator.distance_from_coords; latitude and longitude in hi units
DistanceFromCoords(digipin, latitude, longitude) ==
  LET r == Decode(digipin)
  IN  IF ~ r.valid THEN None
      ELSE Some(HaversineDistance(r.center_lat.hi, r.center_lon.hi,
                                  latitude, longitude))

\* ------------------------------------------------------------- neighbors
\* a faulty variant: each offset is written (lon_off, lat_off)
OffsetsLonFirst ==
  << <<-1, -1>>, <<0, -1>>, <<1, -1>>, <<-1, 0>>, <<1, 0>>, <<-1, 1>>, <<0, 1>>, <<1, 1>> >>

\* a faulty variant: the offset (0, 0) of the cell itself stands in the place of (0, 1)
OffsetsWithSelf ==
  << <<-1, -1>>, <<-1, 0>>, <<-1, 1>>, <<0, -1>>, <<0, 0>>, <<1, -1>>, <<1, 0>>, <<1, 1>> >>

OFFSETS ==
  << <<-1, -1>>, <<-1, 0>>, <<-1, 1>>, <<0, -1>>, <<0, 1>>, <<1, -1>>, <<1, 0>>, <<1, 1>> >>

\* the neighbors list after the first k offsets
RECURSIVE NeighborsLoop(_, _)
NeighborsLoop(r, k) ==
  IF k = 0 THEN <<>>
  ELSE
    LET lat_step == r.bounds.max_lat - r.bounds.min_lat
        lon_step == r.bounds.max_lon - r.bounds.min_lon
        new_lat == F(r.center_lat.hi + OFFSETS[k][1] * lat_step)
        new_lon == F(r.center_lon.hi + OFFSETS[k][2] * lon_step)
        before == NeighborsLoop(r, k - 1)
    IN  IF IsWithinBounds(new_lat, new_lon) /\ Encode(new_lat, new_lon).valid
          THEN Append(before, Encode(new_lat, new_lon).digipin)
          ELSE before

\* DIGIPINValidator.get_neighbors
GetNeighbors(digipin) ==
  LET r == Decode(digipin)
  IN  IF ~ r.valid THEN <<>> ELSE NeighborsLoop(r, Len(OFFSETS))

\* --------------------------------------------------- convenience functions
\* Coordinates.__post_init__ accepts the pair: latitude in [-90, 90] and
\* longitude in [-180, 180]
CoordinatesAccepts(latitude, longitude) ==
  /\ FLeq(F(-90 * Scale), latitude) /\ FLeq(latitude, F(90 * Scale))
  /\ FLeq(F(-180 * Scale), longitude) /\ FLeq(longitude, F(180 * Scale))

\* encode_digipin
EncodeDigipin(latitude, longitude) ==
  LET r == Encode(latitude, longitude)
  IN  IF r.valid THEN r.formatted ELSE <<>>

\* decode_digipin
DecodeDigipin(digipin) ==
  LET r == Decode(digipin)
  IN  IF r.valid THEN <<r.center_lat, r.center_lon>> ELSE <<F(0), F(0)>>

\* validate_digipin
ValidateDigipin(digipin) == Validate(digipin)

\* a faulty variant: an invalid code gives the distance 0
DigipinDistanceZero(digipin1, digipin2) ==
  LET r == DistanceBetween(digipin1, digipin2)
  IN  IF ~ r.is_none THEN r.value ELSE 0

\* digipin_distance
DigipinDistance(digipin1, digipin2) ==
  LET r == DistanceBetween(digipin1, digipin2)
  IN  IF ~ r.is_none THEN r.value ELSE -1

\* the inverse of UpperChar on the letters of the alphabet
LowerChar(c) ==
  CASE c = "C" -> "c" [] c = "F" -> "f" [] c = "J" -> "j" [] c = "K" -> "k"
    [] c = "L" -> "l" [] c = "M" -> "m" [] c = "P" -> "p" [] c = "T" -> "t"
    [] OTHER -> c

\* 10-symbol codes that between them use every symbol
BaseCodes ==
  {[i \in 1..NUM_LEVELS |-> DIGIPIN_CHARS[((7 * k + (2 * k + 1) * i) % 16) + 1]] :
     k \in 0..(MaxCodes - 1)}

\* the ways a caller may write, or miswrite, the code c
Written(c) ==
  { c,
    FormatDigipin(c),
    [i \in 1..Len(c) |-> LowerChar(c[i])],
    SubSeq(c, 1, 3) \o <<" ">> \o SubSeq(c, 4, 6) \o <<" ">> \o SubSeq(c, 7, Len(c)),
    <<"\t">> \o c \o <<"\n">>,
    SubSeq(c, 1, 3) \o <<"\t">> \o SubSeq(c, 4, Len(c)),
    SubSeq(c, 1, Len(c) - 1),
    c \o <<"F">>,
    <<"A">> \o Tail(c),
    SubSeq(c, 1, 4) \o <<"0">> \o SubSeq(c, 6, Len(c)),
    <<"a">> \o Tail(c),
    <<"-", " ">>,
    <<>> }

CodeInputs == UNION {Written(c) : c \in BaseCodes}

\* the code of India Gate and the codes around it
GateCode == Encode(F(GateLat), F(GateLon)).digipin

\* the code of the cell one cell north of it
NextToGate == Encode(F(GateLat + StepAt(NUM_LEVELS)), F(GateLon)).digipin

\* codes, written well or badly, for the calls that take two of them
DistanceInputs ==
  UNION {{c, FormatDigipin(c), SubSeq(c, 1, Len(c) - 1), <<"A">> \o Tail(c)} :
           c \in BaseCodes}
    \cup {GateCode, NextToGate}

\* codes of cells in the corners and on the edges of the bounding box, and of
\* one cell in the interior
NeighborInputs ==
  {GateCode,
   Encode(F(MIN_LAT), F(MAX_LON)).digipin,
   Encode(F(MAX_LAT), F(MIN_LON)).digipin,
   Encode(F(MAX_LAT), F(GateLon)).digipin,
   Encode(F(GateLat), F(MIN_LON)).digipin}

\* coordinates for the calls that run in one step
PointInputs == BaseLat \X BaseLon

\* ======================================================= confidence score
\* Numbers of the scorer.  A raw value, a weight or a quality score v stands
\* for the float v / ScoreOne; a score is held in hundredths of a point; a
\* distance in millimetres; a coordinate in the units of the codec (2^-19
\* degree); a timestamp is a day number and a difference of two the .days of
\* their timedelta.
ScoreOne == 10000

DELIVERED == "DELIVERED"
DELIVERED_WITH_DIFFICULTY == "DELIVERED_WITH_DIFFICULTY"
FAILED == "FAILED"
PENDING == "PENDING"

DeliveryStatus == {DELIVERED, DELIVERED_WITH_DIFFICULTY, FAILED, PENDING}

\* a faulty variant: the points of DELIVERED and of FAILED are exchanged
DeliveryPointsExchanged ==
  [st \in DeliveryStatus |->
     CASE st = DELIVERED -> Some(0)
       [] st = DELIVERED_WITH_DIFFICULTY -> Some(50)
       [] st = FAILED -> Some(100)
       [] st = PENDING -> None]

DELIVERY_POINTS ==
  [st \in DeliveryStatus |->
     CASE st = DELIVERED -> Some(100)
       [] st = DELIVERED_WITH_DIFFICULTY -> Some(50)
       [] st = FAILED -> Some(0)
       [] st = PENDING -> None]

ComponentNames ==
  <<"delivery_success", "spatial_consistency", "temporal_freshness",
    "physical_verification">>

\* a faulty variant: four equal weights
WeightsEqual ==
  [delivery_success |-> ScoreOne \div 4,
   spatial_consistency |-> ScoreOne \div 4,
   temporal_freshness |-> ScoreOne \div 4,
   physical_verification |-> ScoreOne \div 4]

WEIGHTS ==
  [delivery_success |-> (30 * ScoreOne) \div 100,
   spatial_consistency |-> (30 * ScoreOne) \div 100,
   temporal_freshness |-> (20 * ScoreOne) \div 100,
   physical_verification |-> (20 * ScoreOne) \div 100]

\* a faulty variant: the table is in ascending order
GradeThresholdsAscending ==
  << <<0, "F", "Fail - Unreliable">>,
     <<50, "D", "Poor - Low Reliability">>,
     <<60, "C", "Fair - Moderately Reliable">>,
     <<70, "B", "Good - Mostly Reliable">>,
     <<80, "A", "Very Good - Reliable">>,
     <<90, "A+", "Excellent - Highly Reliable">> >>

GRADE_THRESHOLDS ==
  << <<90, "A+", "Excellent - Highly Reliable">>,
     <<80, "A", "Very Good - Reliable">>,
     <<70, "B", "Good - Mostly Reliable">>,
     <<60, "C", "Fair - Moderately Reliable">>,
     <<50, "D", "Poor - Low Reliability">>,
     <<0, "F", "Fail - Unreliable">> >>

DEFAULT_HALF_LIFE_DAYS == 180
DEFAULT_REFERENCE_DISTANCE == 50

Max(a, b) == IF a >= b THEN a ELSE b

\* an exception raised instead of a value returned
Raised(e) == [raised |-> e]
IsRaised(v) == "raised" \in DOMAIN v

\* ---------------------------------------------------------------- math.exp
\* math.log(2)
Ln2 == 6931

\* the series 1 - r + r^2/2! - ... from the term of index k on, for r in [0, ln 2)
RECURSIVE ExpSeries(_, _, _)
ExpSeries(r, k, term) ==
  IF k > 9 \/ term = 0 THEN 0
  ELSE term + ExpSeries(r, k + 1, - ((term * r) \div (k * ScoreOne)))

\* math.exp(-x) for x >= 0: exp(-r) halved q times, where x = q ln 2 + r
ExpNeg(x) ==
  LET q == x \div Ln2
      r == x % Ln2
  IN  IF q > 13 THEN 0 ELSE ExpSeries(r, 1, ScoreOne) \div (2 ^ q)

\* the largest x for which math.exp(x) is a float (709.78...)
ExpLimit == 7097827

\* math.exp(x): the value, or OverflowError above ExpLimit
Exp(x) ==
  IF x > ExpLimit THEN Raised("OverflowError")
  ELSE IF x <= 0 THEN Some(ExpNeg(- x))
  ELSE LET q == x \div Ln2
           r == x % Ln2
       IN  Some(((ScoreOne * ScoreOne) \div ExpSeries(r, 1, ScoreOne)) * (2 ^ q))

\* ------------------------------------------------- component calculations
\* sum of the values of f over the first k entries of a sequence
RECURSIVE SumSeq(_, _)
SumSeq(q, k) == IF k = 0 THEN 0 ELSE SumSeq(q, k - 1) + q[k]

\* a faulty variant: the PENDING records are counted in the denominator
DeliverySuccessOfAll(deliveries) ==
  LET completed == SelectSeq(deliveries, LAMBDA d : d.status # PENDING)
      points == [i \in 1..Len(completed) |->
                   IF DELIVERY_POINTS[completed[i].status].is_none
                     THEN 0 ELSE DELIVERY_POINTS[completed[i].status].value]
      total_points == SumSeq(points, Len(completed))
      max_possible == Len(deliveries) * 100
  IN  IF completed = <<>>
        THEN [value |-> 0, description |-> <<"No delivery history">>, data_points |-> 0]
        ELSE [value |-> IF max_possible > 0
                          THEN (total_points * ScoreOne) \div max_possible ELSE 0,
              description |-> <<"deliveries", Len(completed)>>,
              data_points |-> Len(deliveries)]

\* _calculate_delivery_success
CalculateDeliverySuccess(deliveries) ==
  LET completed == SelectSeq(deliveries, LAMBDA d : d.status # PENDING)
      points == [i \in 1..Len(completed) |->
                   IF DELIVERY_POINTS[completed[i].status].is_none
                     THEN 0 ELSE DELIVERY_POINTS[completed[i].status].value]
      total_points == SumSeq(points, Len(completed))
      max_possible == Len(completed) * 100
  IN  IF completed = <<>>
        THEN [value |-> 0, description |-> <<"No delivery history">>, data_points |-> 0]
        ELSE [value |-> IF max_possible > 0
                          THEN (total_points * ScoreOne) \div max_possible ELSE 0,
              description |-> <<"deliveries", Len(completed)>>,
              data_points |-> Len(completed)]

\* metres * 1000 per coordinate unit along a meridian: R * pi / 180 / Scale
MillimetresPerUnit == 212088

\* the scorer's _haversine_distance, in millimetres.  On one meridian the
\* formula is R times the difference of the latitudes in radians.
ScorerHaversine(lat1, lon1, lat2, lon2) ==
  IF lon1 = lon2
    THEN (Abs(lat2 - lat1) * MillimetresPerUnit) \div 1000
    ELSE HaversineDistance(lat1, lon1, lat2, lon2) * 1000

\* math.exp(-((avg_distance / self.reference_distance) ** 2)): the value, or
\* the ZeroDivisionError of the division
SpatialScore(avg_distance, reference_distance) ==
  IF reference_distance = 0 THEN Raised("ZeroDivisionError")
  ELSE LET ratio == (avg_distance * 10) \div reference_distance
       IN  IF ratio >= 4 * ScoreOne THEN Some(0)
           ELSE Some(ExpNeg((ratio * ratio) \div ScoreOne))

\* _calculate_spatial_consistency
CalculateSpatialConsistency(deliveries, stated_lat, stated_lon, reference_distance) ==
  LET with_coords == SelectSeq(deliveries,
                       LAMBDA d : ~ d.actual_lat.is_none /\ ~ d.actual_lon.is_none)
      distances == [i \in 1..Len(with_coords) |->
                      ScorerHaversine(stated_lat, stated_lon,
                                      with_coords[i].actual_lat.value,
                                      with_coords[i].actual_lon.value)]
      avg_distance == SumSeq(distances, Len(with_coords)) \div Len(with_coords)
      sc == SpatialScore(avg_distance, reference_distance)
  IN  IF with_coords = <<>>
        THEN [value |-> 0, description |-> <<"No coordinate data from deliveries">>,
              data_points |-> 0]
      ELSE IF IsRaised(sc) THEN sc
      ELSE [value |-> sc.value, description |-> <<"Avg distance", avg_distance>>,
            data_points |-> Len(with_coords)]

\* self.lambda_decay * days, for the lambda of the half-life
LambdaTimes(days, half_life_days) ==
  IF days >= 0 THEN (Ln2 * days) \div half_life_days
  ELSE - ((Ln2 * (- days)) \div half_life_days)

\* a faulty variant: a delivery of any status counts as a successful event
RECURSIVE LastDeliveryOfAnyStatus(_, _)
LastDeliveryOfAnyStatus(deliveries, k) ==
  IF k = 0 THEN None
  ELSE LET last == LastDeliveryOfAnyStatus(deliveries, k - 1)
           d == deliveries[k]
       IN  IF last.is_none \/ d.timestamp > last.value
             THEN Some(d.timestamp) ELSE last

\* the timestamp of the most recent successful event among the first k
\* deliveries, or None
RECURSIVE LastDelivery(_, _)
LastDelivery(deliveries, k) ==
  IF k = 0 THEN None
  ELSE LET last == LastDelivery(deliveries, k - 1)
           d == deliveries[k]
       IN  IF d.status \in {DELIVERED, DELIVERED_WITH_DIFFICULTY}
              /\ (last.is_none \/ d.timestamp > last.value)
             THEN Some(d.timestamp) ELSE last

\* ... and then among the first k verifications
RECURSIVE LastEvent(_, _, _)
LastEvent(deliveries, verifications, k) ==
  IF k = 0 THEN LastDelivery(deliveries, Len(deliveries))
  ELSE LET last == LastEvent(deliveries, verifications, k - 1)
           v == verifications[k]
       IN  IF v.verified /\ (last.is_none \/ v.timestamp > last.value)
             THEN Some(v.timestamp) ELSE last

\* _calculate_temporal_freshness
CalculateTemporalFreshness(deliveries, verifications, as_of_date, half_life_days) ==
  LET last_event_date == LastEvent(deliveries, verifications, Len(verifications))
      days_since == Max(0, as_of_date - last_event_date.value)
      tf == Exp(- LambdaTimes(days_since, half_life_days))
  IN  IF last_event_date.is_none
        THEN [value |-> 0, description |-> <<"No successful events recorded">>,
              data_points |-> 0]
      ELSE IF IsRaised(tf) THEN tf
      ELSE [value |-> tf.value, description |-> <<"Last event", days_since>>,
            data_points |-> 1]

\* max(verified_list, key=lambda v: v.timestamp) over the first k entries:
\* the first of the most recent ones
RECURSIVE Latest(_, _)
Latest(verified_list, k) ==
  IF k = 1 THEN verified_list[1]
  ELSE LET best == Latest(verified_list, k - 1)
       IN  IF verified_list[k].timestamp > best.timestamp
             THEN verified_list[k] ELSE best

\* a faulty variant: the quality score is left out
PhysicalValueNoQuality(latest, as_of_date, half_life_days) ==
  Exp(- LambdaTimes(as_of_date - latest.timestamp, half_life_days))

\* latest.quality_score * freshness_factor: the value, or the exception of
\* math.exp
PhysicalValue(latest, as_of_date, half_life_days) ==
  LET days_since == as_of_date - latest.timestamp
      freshness_factor == Exp(- LambdaTimes(days_since, half_life_days))
  IN  IF IsRaised(freshness_factor) THEN freshness_factor
      ELSE Some((latest.quality_score * freshness_factor.value) \div ScoreOne)

\* _calculate_physical_verification
CalculatePhysicalVerification(verifications, as_of_date, half_life_days) ==
  LET verified_list == SelectSeq(verifications, LAMBDA v : v.verified)
      latest == Latest(verified_list, Len(verified_list))
      pvs == PhysicalValue(latest, as_of_date, half_life_days)
  IN  IF verifications = <<>>
        THEN [value |-> ScoreOne \div 10, description |-> <<"Not physically verified">>,
              data_points |-> 0]
      ELSE IF verified_list = <<>>
        THEN [value |-> ScoreOne \div 10,
              description |-> <<"Physical verification failed/incomplete">>,
              data_points |-> Len(verifications)]
      ELSE IF IsRaised(pvs) THEN pvs
      ELSE [value |-> pvs.value, description |-> <<"Verified", latest.quality_score,
                                              as_of_date - latest.timestamp>>,
            data_points |-> Len(verified_list)]

\* ---------------------------------------------------------- helper methods
\* the loop of _get_grade and get_grade from GRADE_THRESHOLDS[k] on; score in
\* hundredths
RECURSIVE GradeFrom(_, _)
GradeFrom(score, k) ==
  IF k > Len(GRADE_THRESHOLDS) THEN <<"F", "Fail - Unreliable">>
  ELSE IF score >= GRADE_THRESHOLDS[k][1] * 100
    THEN <<GRADE_THRESHOLDS[k][2], GRADE_THRESHOLDS[k][3]>>
    ELSE GradeFrom(score, k + 1)

\* ConfidenceScoreCalculator._get_grade
GetGrade(score) == GradeFrom(score, 1)

\* the module's get_grade
ModuleGetGrade(score) == GradeFrom(score, 1)[1]

RecDelivery == "Improve delivery success by validating address details"
RecSpatial == "Address location may need correction - high delivery variance"
RecStale == "Address data is stale - schedule re-verification"
RecPhysical == "Request physical verification by field agent"
RecNoDeliveries == "No delivery history - confidence score based on limited data"
RecNoVerifications == "No physical verification - consider agent verification"

\* a faulty variant: the line is appended when the condition does not hold
AppendUnless(q, cond, r) == IF cond THEN q ELSE Append(q, r)

\* recommendations.append(r) if the condition holds
AppendIf(q, cond, r) == IF cond THEN Append(q, r) ELSE q

\* a faulty variant: the stale-data line comes first
GenerateRecommendationsStaleFirst(components, coverage) ==
  LET r1 == AppendIf(<<>>, components.temporal_freshness.raw_value < ScoreOne \div 2,
                     RecStale)
      r2 == AppendIf(r1, components.delivery_success.raw_value < (7 * ScoreOne) \div 10,
                     RecDelivery)
      r3 == AppendIf(r2, components.spatial_consistency.raw_value < (7 * ScoreOne) \div 10,
                     RecSpatial)
      r4 == AppendIf(r3, components.physical_verification.raw_value < ScoreOne \div 2,
                     RecPhysical)
      r5 == AppendIf(r4, ~ coverage.has_deliveries, RecNoDeliveries)
  IN  AppendIf(r5, ~ coverage.has_verifications, RecNoVerifications)

\* _generate_recommendations
GenerateRecommendations(components, coverage) ==
  LET r1 == AppendIf(<<>>, components.delivery_success.raw_value < (7 * ScoreOne) \div 10,
                     RecDelivery)
      r2 == AppendIf(r1, components.spatial_consistency.raw_value < (7 * ScoreOne) \div 10,
                     RecSpatial)
      r3 == AppendIf(r2, components.temporal_freshness.raw_value < ScoreOne \div 2,
                     RecStale)
      r4 == AppendIf(r3, components.physical_verification.raw_value < ScoreOne \div 2,
                     RecPhysical)
      r5 == AppendIf(r4, ~ coverage.has_deliveries, RecNoDeliveries)
  IN  AppendIf(r5, ~ coverage.has_verifications, RecNoVerifications)

\* --------------------------------------------------------------- __init__
\* sum(self.weights.values())
RECURSIVE SumValues(_, _)
SumValues(f, keys) ==
  IF keys = {} THEN 0
  ELSE LET k == CHOOSE x \in keys : TRUE
       IN  f[k] + SumValues(f, keys \ {k})

\* "weights or WEIGHTS.copy()": None and the empty dict are replaced
WeightsOrDefault(weights) ==
  IF weights = None \/ weights = EmptyDict THEN WEIGHTS ELSE weights

\* a faulty variant: the tolerance is 0.3
ConstructLoose(weights, half_life_days, reference_distance) ==
  IF half_life_days = 0 THEN Raised("ZeroDivisionError")
  ELSE IF Abs(SumValues(WeightsOrDefault(weights), DOMAIN WeightsOrDefault(weights))
              - ScoreOne) > (3 * ScoreOne) \div 10
    THEN Raised("ValueError")
  ELSE [weights |-> WeightsOrDefault(weights),
        half_life_days |-> half_life_days,
        reference_distance |-> reference_distance]

\* ConfidenceScoreCalculator.__init__: the calculator, or the exception
Construct(weights, half_life_days, reference_distance) ==
  IF half_life_days = 0 THEN Raised("ZeroDivisionError")
  ELSE IF Abs(SumValues(WeightsOrDefault(weights), DOMAIN WeightsOrDefault(weights))
              - ScoreOne) > ScoreOne \div 1000
    THEN Raised("ValueError")
  ELSE [weights |-> WeightsOrDefault(weights),
        half_life_days |-> half_life_days,
        reference_distance |-> reference_distance]

\* -------------------------------------------------------------- calculate
ScoreComponent(name, part, weight) ==
  [name |-> name,
   raw_value |-> part.value,
   weighted_value |-> part.value * weight,
   weight |-> weight,
   description |-> part.description,
   data_points |-> part.data_points]

\* round(total_weighted * 100, 2) in hundredths, total_weighted in units of
\* 1 / ScoreOne^2: the nearest integer to total / ScoreOne, ties to even
RoundScore(total) ==
  LET q == total \div ScoreOne
      r == total % ScoreOne
  IN  IF 2 * r > ScoreOne \/ (2 * r = ScoreOne /\ q % 2 = 1) THEN q + 1 ELSE q

\* a faulty variant: only the upper limit is applied
ClampAbove(score) == Min(100 * 100, score)

\* max(0, min(100, score))
Clamp(score) == Max(0, Min(100 * 100, score))

\* the part of calculate after the four component calculations
BuildResult(calc, address, as_of_date, dsr, sc, tf, pvs) ==
  LET components ==
        [delivery_success |->
           ScoreComponent("Delivery Success Rate", dsr, calc.weights.delivery_success),
         spatial_consistency |->
           ScoreComponent("Spatial Consistency", sc, calc.weights.spatial_consistency),
         temporal_freshness |->
           ScoreComponent("Temporal Freshness", tf, calc.weights.temporal_freshness),
         physical_verification |->
           ScoreComponent("Physical Verification", pvs,
                          calc.weights.physical_verification)]
      total_weighted ==
        components.delivery_success.weighted_value
          + components.spatial_consistency.weighted_value
          + components.temporal_freshness.weighted_value
          + components.physical_verification.weighted_value
      score == Clamp(RoundScore(total_weighted))
      coverage ==
        [has_deliveries |-> Len(address.deliveries) > 0,
         has_coordinates |->
           \E i \in 1..Len(address.deliveries) :
             /\ ~ address.deliveries[i].actual_lat.is_none
             /\ ~ address.deliveries[i].actual_lon.is_none,
         has_verifications |-> Len(address.verifications) > 0,
         is_recent |-> tf.value > ScoreOne \div 2]
  IN  [score |-> score,
       grade |-> GetGrade(score)[1],
       grade_description |-> GetGrade(score)[2],
       components |-> components,
       computed_at |-> as_of_date,
       coverage |-> coverage,
       recommendations |-> GenerateRecommendations(components, coverage)]

\* ConfidenceScoreCalculator.calculate: the ConfidenceResult, or the exception
\* of the first component calculation that raises
Calculate(calc, address, as_of_date) ==
  LET dsr == CalculateDeliverySuccess(address.deliveries)
      sc == CalculateSpatialConsistency(address.deliveries, address.stated_lat,
                                        address.stated_lon, calc.reference_distance)
      tf == CalculateTemporalFreshness(address.deliveries, address.verifications,
                                       as_of_date, calc.half_life_days)
      pvs == CalculatePhysicalVerification(address.verifications, as_of_date,
                                           calc.half_life_days)
  IN  IF IsRaised(dsr) THEN dsr
      ELSE IF IsRaised(sc) THEN sc
      ELSE IF IsRaised(tf) THEN tf
      ELSE IF IsRaised(pvs) THEN pvs
      ELSE BuildResult(calc, address, as_of_date, dsr, sc, tf, pvs)

\* ------------------------------------------------------------ the caller
\* One caller makes one call at a time.  encode and decode run their loops one
\* iteration per step; the locals of the running call are the variables.
VARIABLES
  pc,             \* "idle", "encode_loop", "decode_loop", "done"
  op,             \* the entry point called
  args,           \* its arguments
  level,          \* iterations of the loop completed
  win,            \* min_lat, max_lat, min_lon, max_lon
  digipin_chars,  \* encode: the characters so far
  row, col,       \* the row and column of the last iteration
  clean,          \* decode: the cleaned string
  result          \* the value returned

\* One owner of a calculator builds an address history and scores it.
VARIABLES
  given,          \* the arguments given to __init__
  calculator,     \* NoCalculator, the calculator, or the exception of __init__
  address,        \* the AddressData
  confidence      \* NotCalled, or what the call made has returned or raised

\* Several callers call the module-level validator and one calculator at the
\* same time.
VARIABLES
  calls,          \* per caller: pc, op, args and the value returned
  frames,         \* per call: its local names
  table,          \* the dict CHAR_TO_POSITION
  validator,      \* the fields min_lat, max_lat, min_lon, max_lon of _validator
  scoring         \* the calculator and the AddressData the callers share

codec == <<pc, op, args, level, win, digipin_chars, row, col, clean, result>>

scorer == <<given, calculator, address, confidence>>

shared == <<calls, frames, table, validator, scoring>>

vars == <<pc, op, args, level, win, digipin_chars, row, col, clean, result,
          given, calculator, address, confidence,
          calls, frames, table, validator, scoring>>

NumCallers == 2

Callers == 1..NumCallers

IdleCall == [pc |-> "idle", op |-> "none", args |-> <<>>, result |-> <<>>]

NoParts == [computed |-> FALSE]

NoFrame ==
  [level |-> 0, win |-> FullWindow, chars |-> <<>>, clean |-> <<>>, parts |-> NoParts]

\* ConfidenceScoreCalculator(): the calculator the callers share
SharedCalculator ==
  Construct(None, DEFAULT_HALF_LIFE_DAYS, DEFAULT_REFERENCE_DISTANCE)

NoCalculator == [constructed |-> FALSE]

NotCalled == [called |-> "nothing"]

\* the stated coordinates of the address: New Delhi, 28.6139, 77.2090
StatedLat == 28 * Scale + (6139 * (Scale \div 16)) \div 625
StatedLon == 77 * Scale + (2090 * (Scale \div 16)) \div 625

NoHistory ==
  [stated_lat |-> StatedLat, stated_lon |-> StatedLon,
   deliveries |-> <<>>, verifications |-> <<>>]

ScorerIdle ==
  /\ given = <<>>
  /\ calculator = NoCalculator /\ address = NoHistory /\ confidence = NotCalled

\* nobody is calling; the module has been imported
NobodyCalls ==
  /\ calls = [c \in Callers |-> IdleCall]
  /\ frames = [c \in Callers |-> NoFrame]
  /\ table = CHAR_TO_POSITION
  /\ validator = FullWindow

SharedIdle ==
  /\ NobodyCalls
  /\ scoring = [calculator |-> SharedCalculator, address |-> NoHistory]

NoLocals ==
  /\ level = 0 /\ win = FullWindow /\ digipin_chars = <<>>
  /\ row = 0 /\ col = 0 /\ clean = <<>>

Init ==
  /\ pc = "idle" /\ op = "none" /\ args = <<>> /\ result = <<>>
  /\ NoLocals
  /\ ScorerIdle
  /\ SharedIdle

\* encode(latitude, longitude): the bounds check and the initialisation
CallEncode(latitude, longitude) ==
  /\ pc = "idle"
  /\ op' = "encode"
  /\ args' = <<latitude, longitude>>
  /\ IF ~ IsWithinBounds(latitude, longitude)
       THEN /\ pc' = "done"
            /\ result' = EncodeFailure(latitude, longitude)
       ELSE /\ pc' = "encode_loop"
            /\ result' = result
  /\ level' = 0 /\ win' = FullWindow /\ digipin_chars' = <<>>
  /\ UNCHANGED <<row, col, clean>>
  /\ UNCHANGED <<scorer, shared>>

\* one iteration of "for level in range(NUM_LEVELS)"
EncodeIter ==
  /\ pc = "encode_loop" /\ level < NUM_LEVELS
  /\ LET st == EncodeIteration([win |-> win, chars |-> digipin_chars,
                                row |-> row, col |-> col], args[1], args[2])
     IN  /\ win' = st.win
         /\ digipin_chars' = st.chars
         /\ row' = st.row
         /\ col' = st.col
  /\ level' = level + 1
  /\ UNCHANGED <<pc, op, args, clean, result>>
  /\ UNCHANGED <<scorer, shared>>

\* the loop is over: build the result
EncodeReturn ==
  /\ pc = "encode_loop" /\ level = NUM_LEVELS
  /\ result' = EncodeResult([win |-> win, chars |-> digipin_chars,
                             row |-> row, col |-> col])
  /\ pc' = "done"
  /\ UNCHANGED <<op, args, level, win, digipin_chars, row, col, clean>>
  /\ UNCHANGED <<scorer, shared>>

\* decode(digipin): validation, cleaning and the initialisation
StartDecode(digipin) ==
  /\ op' = "decode"
  /\ args' = <<digipin>>
  /\ LET v == ValidateWithDetails(digipin)
     IN  IF ~ v[1]
           THEN /\ pc' = "done"
                /\ result' = DecodeFailure(digipin, v[2])
                /\ clean' = <<>>
           ELSE /\ pc' = "decode_loop"
                /\ result' = <<>>
                /\ clean' = Upper(CleanDigipin(digipin))
  /\ level' = 0 /\ win' = FullWindow /\ digipin_chars' = <<>>
  /\ row' = 0 /\ col' = 0
  /\ UNCHANGED <<scorer, shared>>

CallDecode(digipin) ==
  /\ pc = "idle"
  /\ StartDecode(digipin)

\* the caller decodes the code encode has just returned
DecodeEncoded ==
  /\ pc = "done" /\ op = "encode" /\ result.valid
  /\ StartDecode(result.digipin)

\* one iteration of "for char in clean"
DecodeIter ==
  /\ pc = "decode_loop" /\ level < Len(clean)
  /\ row' = CHAR_TO_POSITION[clean[level + 1]][1]
  /\ col' = CHAR_TO_POSITION[clean[level + 1]][2]
  /\ win' = DecodeIteration(win, clean[level + 1])
  /\ level' = level + 1
  /\ UNCHANGED <<pc, op, args, digipin_chars, clean, result>>
  /\ UNCHANGED <<scorer, shared>>

DecodeReturn ==
  /\ pc = "decode_loop" /\ level = Len(clean)
  /\ result' = DecodeResult(clean, win)
  /\ pc' = "done"
  /\ UNCHANGED <<op, args, level, win, digipin_chars, row, col, clean>>
  /\ UNCHANGED <<scorer, shared>>

\* a call that runs in one step
Returns(name, a, value) ==
  /\ pc' = "done" /\ op' = name /\ args' = a /\ result' = value
  /\ UNCHANGED <<level, win, digipin_chars, row, col, clean>>
  /\ UNCHANGED <<scorer, shared>>

CallValidate(digipin) ==
  /\ pc = "idle"
  /\ Returns("validate", <<digipin>>, Validate(digipin))

CallValidateWithDetails(digipin) ==
  /\ pc = "idle"
  /\ Returns("validate_with_details", <<digipin>>, ValidateWithDetails(digipin))

CallFormat(digipin) ==
  /\ pc = "idle"
  /\ Returns("_format_digipin", <<digipin>>, FormatDigipin(digipin))

CallDistanceBetween(digipin1, digipin2) ==
  /\ pc = "idle"
  /\ Returns("distance_between", <<digipin1, digipin2>>,
             DistanceBetween(digipin1, digipin2))

CallDistanceFromCoords(digipin, latitude, longitude) ==
  /\ pc = "idle"
  /\ Returns("distance_from_coords", <<digipin, latitude, longitude>>,
             DistanceFromCoords(digipin, latitude.hi, longitude.hi))

CallGetNeighbors(digipin) ==
  /\ pc = "idle"
  /\ Returns("get_neighbors", <<digipin>>, GetNeighbors(digipin))

CallEncodeDigipin(latitude, longitude) ==
  /\ pc = "idle"
  /\ Returns("encode_digipin", <<latitude, longitude>>, EncodeDigipin(latitude, longitude))

CallDecodeDigipin(digipin) ==
  /\ pc = "idle"
  /\ Returns("decode_digipin", <<digipin>>, DecodeDigipin(digipin))

CallValidateDigipin(digipin) ==
  /\ pc = "idle"
  /\ Returns("validate_digipin", <<digipin>>, ValidateDigipin(digipin))

CallDigipinDistance(digipin1, digipin2) ==
  /\ pc = "idle"
  /\ Returns("digipin_distance", <<digipin1, digipin2>>,
             DigipinDistance(digipin1, digipin2))

\* the caller drops the result; the locals of the call are gone
Forget ==
  /\ pc = "done"
  /\ pc' = "idle" /\ op' = "none" /\ args' = <<>> /\ result' = <<>>
  /\ level' = 0 /\ win' = FullWindow /\ digipin_chars' = <<>>
  /\ row' = 0 /\ col' = 0 /\ clean' = <<>>
  /\ UNCHANGED <<scorer, shared>>

Next ==
  \/ \E p \in EncodeInputs : CallEncode(p[1], p[2])
  \/ EncodeIter
  \/ EncodeReturn
  \/ \E s \in CodeInputs : CallDecode(s)
  \/ DecodeEncoded
  \/ DecodeIter
  \/ DecodeReturn
  \/ \E s \in CodeInputs : CallValidate(s)
  \/ \E s \in CodeInputs : CallValidateWithDetails(s)
  \/ \E s \in CodeInputs : CallFormat(s)
  \/ \E a \in DistanceInputs, b \in DistanceInputs : CallDistanceBetween(a, b)
  \/ \E s \in DistanceInputs :
       CallDistanceFromCoords(s, F(GateLat), F(GateLon))
  \/ \E s \in CodeInputs \cup NeighborInputs : CallGetNeighbors(s)
  \/ \E p \in PointInputs : CallEncodeDigipin(p[1], p[2])
  \/ \E s \in CodeInputs : CallDecodeDigipin(s)
  \/ \E s \in CodeInputs : CallValidateDigipin(s)
  \/ \E a \in DistanceInputs, b \in DistanceInputs : CallDigipinDistance(a, b)
  \/ Forget

Spec == Init /\ [][Next]_vars

\* ------------------------------------------------- the owner of a calculator
MaxDeliveries == 2
MaxVerifications == 2

Weights(a, b, c, d) ==
  [delivery_success |-> a, spatial_consistency |-> b,
   temporal_freshness |-> c, physical_verification |-> d]

\* weights given to __init__: none, an empty dict, sums of 1.0, 0.8, 1.2, sums
\* just inside and just outside the tolerance, all the weight on one
\* component, a negative weight on spatial consistency and on physical
\* verification
WeightInputs ==
  {None, EmptyDict,
   Weights(2500, 2500, 2500, 2500),
   Weights(2000, 2000, 2000, 2000),
   Weights(3000, 3000, 3000, 3000),
   Weights(3000, 3000, 2000, 1989),
   Weights(3000, 3000, 2000, 1991),
   Weights(3000, 3000, 2000, 2009),
   Weights(3000, 3000, 2000, 2011),
   Weights(0, 0, 0, 10000),
   Weights(5000, -5000, 5000, 5000),
   Weights(15000, 0, 0, -5000)}

HalfLifeInputs == {DEFAULT_HALF_LIFE_DAYS, 0}

ReferenceInputs == {DEFAULT_REFERENCE_DISTANCE, 0}

\* the arguments of __init__ tried: every weights with the defaults, and the
\* default weights with the other half-lives and reference distances
ConstructInputs ==
  (WeightInputs \X {DEFAULT_HALF_LIFE_DAYS} \X {DEFAULT_REFERENCE_DISTANCE})
    \cup ({None} \X HalfLifeInputs \X ReferenceInputs)

DeliveryRecord(timestamp, status, actual_lat, actual_lon) ==
  [timestamp |-> timestamp, status |-> status,
   actual_lat |-> actual_lat, actual_lon |-> actual_lon]

PhysicalVerification(timestamp, verified, quality_score) ==
  [timestamp |-> timestamp, verified |-> verified, quality_score |-> quality_score]

\* deliveries: about 4 m off, about 106 m off, pending without coordinates,
\* long ago with half a coordinate, dated after the scoring date
DeliveryInputs ==
  {DeliveryRecord(-20, DELIVERED, Some(StatedLat + 19), Some(StatedLon)),
   DeliveryRecord(-5, FAILED, Some(StatedLat - 500), Some(StatedLon)),
   DeliveryRecord(-1, PENDING, None, None),
   DeliveryRecord(-400, DELIVERED_WITH_DIFFICULTY, Some(StatedLat), None),
   DeliveryRecord(30, DELIVERED, Some(StatedLat), Some(StatedLon))}

\* verifications: ten days old, failed, dated half a year and some five
\* centuries after the scoring date
VerificationInputs ==
  {PhysicalVerification(-10, TRUE, (9 * ScoreOne) \div 10),
   PhysicalVerification(-3, FALSE, ScoreOne \div 2),
   PhysicalVerification(180, TRUE, ScoreOne),
   PhysicalVerification(200000, TRUE, ScoreOne)}

AsOfDates == {0, DEFAULT_HALF_LIFE_DAYS}

\* 8 DELIVERED and 2 FAILED deliveries, all off units from the stated
\* latitude and age days old, and one verification of quality 0.9, 10 days old
ScenarioTwo(off, age) ==
  [stated_lat |-> StatedLat, stated_lon |-> StatedLon,
   deliveries |->
     [i \in 1..10 |->
        DeliveryRecord(- age - i, IF i <= 8 THEN DELIVERED ELSE FAILED,
                       Some(StatedLat + off), Some(StatedLon))],
   verifications |-> <<PhysicalVerification(-10, TRUE, (9 * ScoreOne) \div 10)>>]

\* no deliveries and two verifications of the same day, of quality 0.9 and 0.5
SameDayVerifications ==
  [stated_lat |-> StatedLat, stated_lon |-> StatedLon,
   deliveries |-> <<>>,
   verifications |-> <<PhysicalVerification(-10, TRUE, (9 * ScoreOne) \div 10),
                       PhysicalVerification(-10, TRUE, ScoreOne \div 2)>>]

\* offsets of 0 m, 4 m and 4.9 m; deliveries newer and older than the
\* verification
ScenarioInputs == {ScenarioTwo(off, age) : off \in {0, 19, 23}, age \in {1, 20, 400}}

\* the long histories an address is loaded with
HistoryInputs == ScenarioInputs \cup {SameDayVerifications}

\* scores in hundredths: around every threshold, and every whole point
ScoreInputs ==
  {100 * k : k \in 0..100}
    \cup {GRADE_THRESHOLDS[k][1] * 100 - 1 : k \in 1..(Len(GRADE_THRESHOLDS) - 1)}
    \cup {GRADE_THRESHOLDS[k][1] * 100 + 1 : k \in 1..Len(GRADE_THRESHOLDS)}

IsCalculator(c) == "weights" \in DOMAIN c

\* calculator = ConfidenceScoreCalculator(weights, half_life_days, reference_distance)
ConstructCalculator(weights, half_life_days, reference_distance) ==
  /\ calculator = NoCalculator
  /\ given' = <<weights, half_life_days, reference_distance>>
  /\ calculator' = Construct(weights, half_life_days, reference_distance)
  /\ UNCHANGED <<address, confidence>>
  /\ UNCHANGED <<codec, shared>>

\* address.deliveries.append(d)
AddDelivery(d) ==
  /\ IsCalculator(calculator) /\ confidence = NotCalled
  /\ Len(address.deliveries) < MaxDeliveries
  /\ address' = [address EXCEPT !.deliveries = Append(@, d)]
  /\ UNCHANGED <<given, calculator, confidence>>
  /\ UNCHANGED <<codec, shared>>

\* address.verifications.append(v)
AddVerification(v) ==
  /\ IsCalculator(calculator) /\ confidence = NotCalled
  /\ Len(address.verifications) < MaxVerifications
  /\ address' = [address EXCEPT !.verifications = Append(@, v)]
  /\ UNCHANGED <<given, calculator, confidence>>
  /\ UNCHANGED <<codec, shared>>

\* the address is one with a long history
LoadScenario(a) ==
  /\ IsCalculator(calculator) /\ confidence = NotCalled
  /\ address = NoHistory
  /\ address' = a
  /\ UNCHANGED <<given, calculator, confidence>>
  /\ UNCHANGED <<codec, shared>>

\* calculator.calculate(address, as_of_date)
CallCalculate(as_of_date) ==
  /\ IsCalculator(calculator) /\ confidence = NotCalled
  /\ confidence' = [called |-> "calculate", as_of_date |-> as_of_date,
                    returned |-> Calculate(calculator, address, as_of_date)]
  /\ UNCHANGED <<given, calculator, address>>
  /\ UNCHANGED <<codec, shared>>

\* calculate_score(address): a new default calculator, as of now
CallCalculateScore(now) ==
  /\ calculator = NoCalculator /\ confidence = NotCalled
  /\ confidence' =
       [called |-> "calculate_score", as_of_date |-> now,
        returned |->
          LET r == Calculate(Construct(None, DEFAULT_HALF_LIFE_DAYS,
                                       DEFAULT_REFERENCE_DISTANCE), address, now)
          IN  IF IsRaised(r) THEN r ELSE Some(r.score)]
  /\ UNCHANGED <<given, calculator, address>>
  /\ UNCHANGED <<codec, shared>>

\* get_grade(score)
CallGetGrade(score) ==
  /\ calculator = NoCalculator /\ confidence = NotCalled
  /\ confidence' = [called |-> "get_grade", score |-> score,
                    returned |-> ModuleGetGrade(score)]
  /\ UNCHANGED <<given, calculator, address>>
  /\ UNCHANGED <<codec, shared>>

ScoreNext ==
  \/ \E c \in ConstructInputs : ConstructCalculator(c[1], c[2], c[3])
  \/ \E d \in DeliveryInputs : AddDelivery(d)
  \/ \E v \in VerificationInputs : AddVerification(v)
  \/ \E a \in HistoryInputs : LoadScenario(a)
  \/ \E t \in AsOfDates : CallCalculate(t)
  \/ \E t \in AsOfDates : CallCalculateScore(t)
  \/ \E x \in ScoreInputs : CallGetGrade(x)

ScoreSpec == Init /\ [][ScoreNext]_vars

\* ------------------------------------------------------ concurrent callers
\* The callers share the module-level _validator, the dict CHAR_TO_POSITION,
\* one calculator and one AddressData.  Their calls interleave at the
\* iterations of the loops of encode and decode and between the component
\* calculations of calculate and the building of its result.

\* a faulty variant: the names of the loop are kept in one place for all calls
LocalsOnInstance(c) == 1

\* min_lat, max_lat, min_lon, max_lon, digipin_chars, clean and the component
\* dicts are local names: every call has its own
LocalsOf(c) == c

\* the points and the strings the callers pass
SharedPoints == {<<F(GateLat), F(GateLon)>>, <<F(MAX_LAT + 1), F(GateLon)>>}

SharedCodes == {FormatDigipin(NextToGate), SubSeq(GateCode, 1, Len(GateCode) - 1)}

\* the histories the shared AddressData may hold
SharedHistories ==
  {ScenarioTwo(19, 20),
   [stated_lat |-> StatedLat, stated_lon |-> StatedLon,
    deliveries |->
      <<DeliveryRecord(-20, DELIVERED, Some(StatedLat + 19), Some(StatedLon)),
        DeliveryRecord(-1, PENDING, None, None)>>,
    verifications |-> <<PhysicalVerification(180, TRUE, ScoreOne)>>]}

SharedInit ==
  /\ pc = "idle" /\ op = "none" /\ args = <<>> /\ result = <<>>
  /\ NoLocals
  /\ ScorerIdle
  /\ NobodyCalls
  /\ \E a \in SharedHistories :
       scoring = [calculator |-> SharedCalculator, address |-> a]

\* _validator.encode(latitude, longitude): the bounds check on the fields of
\* the instance and the initialisation of the local window from them
SharedEncode(c, latitude, longitude) ==
  /\ calls[c].pc = "idle"
  /\ IF ~ (/\ FLeq(F(validator.min_lat), latitude)
           /\ FLeq(latitude, F(validator.max_lat))
           /\ FLeq(F(validator.min_lon), longitude)
           /\ FLeq(longitude, F(validator.max_lon)))
       THEN /\ calls' = [calls EXCEPT ![c] =
                           [pc |-> "done", op |-> "encode",
                            args |-> <<latitude, longitude>>,
                            result |-> EncodeFailure(latitude, longitude)]]
            /\ frames' = frames
       ELSE /\ calls' = [calls EXCEPT ![c] =
                           [pc |-> "encode_loop", op |-> "encode",
                            args |-> <<latitude, longitude>>, result |-> <<>>]]
            /\ frames' = [frames EXCEPT ![LocalsOf(c)] =
                            [NoFrame EXCEPT !.win = validator]]
  /\ UNCHANGED <<table, validator, scoring>>
  /\ UNCHANGED <<codec, scorer>>

\* one iteration of encode's loop in the call of caller c
SharedEncodeIter(c) ==
  /\ calls[c].pc = "encode_loop"
  /\ frames[LocalsOf(c)].level < NUM_LEVELS
  /\ LET f == frames[LocalsOf(c)]
         st == EncodeIteration([win |-> f.win, chars |-> f.chars,
                                row |-> 0, col |-> 0],
                               calls[c].args[1], calls[c].args[2])
     IN  frames' = [frames EXCEPT ![LocalsOf(c)] =
                      [f EXCEPT !.win = st.win, !.chars = st.chars,
                                !.level = f.level + 1]]
  /\ UNCHANGED <<calls, table, validator, scoring>>
  /\ UNCHANGED <<codec, scorer>>

SharedEncodeReturn(c) ==
  /\ calls[c].pc = "encode_loop"
  /\ frames[LocalsOf(c)].level = NUM_LEVELS
  /\ LET f == frames[LocalsOf(c)]
     IN  calls' = [calls EXCEPT ![c].pc = "done",
                                ![c].result =
                                  EncodeResult([win |-> f.win, chars |-> f.chars,
                                                row |-> 0, col |-> 0])]
  /\ UNCHANGED <<frames, table, validator, scoring>>
  /\ UNCHANGED <<codec, scorer>>

\* _validator.decode(digipin): validation, cleaning and the initialisation
SharedDecode(c, digipin) ==
  /\ calls[c].pc = "idle"
  /\ LET v == ValidateWithDetails(digipin)
     IN  IF ~ v[1]
           THEN /\ calls' = [calls EXCEPT ![c] =
                               [pc |-> "done", op |-> "decode",
                                args |-> <<digipin>>,
                                result |-> DecodeFailure(digipin, v[2])]]
                /\ frames' = frames
           ELSE /\ calls' = [calls EXCEPT ![c] =
                               [pc |-> "decode_loop", op |-> "decode",
                                args |-> <<digipin>>, result |-> <<>>]]
                /\ frames' = [frames EXCEPT ![LocalsOf(c)] =
                                [NoFrame EXCEPT
                                   !.win = validator,
                                   !.clean = Upper(CleanDigipin(digipin))]]
  /\ UNCHANGED <<table, validator, scoring>>
  /\ UNCHANGED <<codec, scorer>>

\* one iteration of decode's loop: the lookup in the shared dict
SharedDecodeIter(c) ==
  /\ calls[c].pc = "decode_loop"
  /\ frames[LocalsOf(c)].level < Len(frames[LocalsOf(c)].clean)
  /\ LET f == frames[LocalsOf(c)]
         position == table[f.clean[f.level + 1]]
     IN  frames' = [frames EXCEPT ![LocalsOf(c)] =
                      [f EXCEPT !.win = DecodeNarrow(f.win, position[1], position[2]),
                                !.level = f.level + 1]]
  /\ UNCHANGED <<calls, table, validator, scoring>>
  /\ UNCHANGED <<codec, scorer>>

SharedDecodeReturn(c) ==
  /\ calls[c].pc = "decode_loop"
  /\ frames[LocalsOf(c)].level = Len(frames[LocalsOf(c)].clean)
  /\ LET f == frames[LocalsOf(c)]
     IN  calls' = [calls EXCEPT ![c].pc = "done",
                                ![c].result = DecodeResult(f.clean, f.win)]
  /\ UNCHANGED <<frames, table, validator, scoring>>
  /\ UNCHANGED <<codec, scorer>>

\* _validator.validate(digipin)
SharedValidate(c, digipin) ==
  /\ calls[c].pc = "idle"
  /\ calls' = [calls EXCEPT ![c] =
                 [pc |-> "done", op |-> "validate", args |-> <<digipin>>,
                  result |-> Validate(digipin)]]
  /\ UNCHANGED <<frames, table, validator, scoring>>
  /\ UNCHANGED <<codec, scorer>>

\* _validator.get_neighbors(digipin): its decode and its encodes run on names
\* of their own
SharedGetNeighbors(c, digipin) ==
  /\ calls[c].pc = "idle"
  /\ calls' = [calls EXCEPT ![c] =
                 [pc |-> "done", op |-> "get_neighbors", args |-> <<digipin>>,
                  result |-> GetNeighbors(digipin)]]
  /\ UNCHANGED <<frames, table, validator, scoring>>
  /\ UNCHANGED <<codec, scorer>>

\* calculate(address, as_of_date) on the shared calculator and AddressData:
\* the four component calculations
SharedCalculate(c, as_of_date) ==
  /\ calls[c].pc = "idle"
  /\ calls' = [calls EXCEPT ![c] =
                 [pc |-> "calculate_build", op |-> "calculate",
                  args |-> <<scoring.address, as_of_date>>, result |-> <<>>]]
  /\ LET calc == scoring.calculator
         a == scoring.address
     IN  frames' =
           [frames EXCEPT ![LocalsOf(c)] =
              [NoFrame EXCEPT !.parts =
                 [dsr |-> CalculateDeliverySuccess(a.deliveries),
                  sc |-> CalculateSpatialConsistency(
                           a.deliveries, a.stated_lat, a.stated_lon,
                           calc.reference_distance),
                  tf |-> CalculateTemporalFreshness(
                           a.deliveries, a.verifications, as_of_date,
                           calc.half_life_days),
                  pvs |-> CalculatePhysicalVerification(
                            a.verifications, as_of_date, calc.half_life_days)]]]
  /\ UNCHANGED <<table, validator, scoring>>
  /\ UNCHANGED <<codec, scorer>>

\* calculate: the final score, the coverage and the recommendations, or the
\* exception a component calculation has raised
SharedCalculateReturn(c) ==
  /\ calls[c].pc = "calculate_build"
  /\ frames[LocalsOf(c)].parts # NoParts
  /\ LET p == frames[LocalsOf(c)].parts
     IN  calls' =
           [calls EXCEPT
              ![c].pc = "done",
              ![c].result =
                IF IsRaised(p.dsr) THEN p.dsr
                ELSE IF IsRaised(p.sc) THEN p.sc
                ELSE IF IsRaised(p.tf) THEN p.tf
                ELSE IF IsRaised(p.pvs) THEN p.pvs
                ELSE BuildResult(scoring.calculator, scoring.address,
                                 calls[c].args[2], p.dsr, p.sc, p.tf, p.pvs)]
  /\ UNCHANGED <<frames, table, validator, scoring>>
  /\ UNCHANGED <<codec, scorer>>

\* the caller drops the result; the local names of the call are gone
SharedForget(c) ==
  /\ calls[c].pc = "done"
  /\ calls' = [calls EXCEPT ![c] = IdleCall]
  /\ frames' = [frames EXCEPT ![LocalsOf(c)] = NoFrame]
  /\ UNCHANGED <<table, validator, scoring>>
  /\ UNCHANGED <<codec, scorer>>

SharedNext ==
  \/ \E c \in Callers, p \in SharedPoints : SharedEncode(c, p[1], p[2])
  \/ \E c \in Callers : SharedEncodeIter(c)
  \/ \E c \in Callers : SharedEncodeReturn(c)
  \/ \E c \in Callers, s \in SharedCodes : SharedDecode(c, s)
  \/ \E c \in Callers : SharedDecodeIter(c)
  \/ \E c \in Callers : SharedDecodeReturn(c)
  \/ \E c \in Callers, s \in SharedCodes : SharedValidate(c, s)
  \/ \E c \in Callers : SharedGetNeighbors(c, NextToGate)
  \/ \E c \in Callers, t \in AsOfDates : SharedCalculate(c, t)
  \/ \E c \in Callers : SharedCalculateReturn(c)
  \/ \E c \in Callers : SharedForget(c)

SharedSpec == SharedInit /\ [][SharedNext]_vars


\* ================================================================ claims
EncodeDone == pc = "done" /\ op = "encode"
DecodeDone == pc = "done" /\ op = "decode"

\* C1: round-trip stability.  The code encode returns for a coordinate inside
\* the box decodes to a cell whose centre encodes to the same code, and the
\* centre of the cell of every valid code encodes to that code.
C1_RoundTrip ==
  /\ (EncodeDone /\ result.valid) =>
       LET d == Decode(result.digipin)
       IN  /\ d.valid
           /\ Encode(d.center_lat, d.center_lon).valid
           /\ Encode(d.center_lat, d.center_lon).digipin = result.digipin
  /\ (DecodeDone /\ result.valid) =>
       /\ Encode(result.center_lat, result.center_lon).valid
       /\ Encode(result.center_lat, result.center_lon).digipin = result.digipin

\* an encoded coordinate that is not the centre of its cell
C1_Witness ==
  /\ EncodeDone /\ result.valid
  /\ args[1] # result.center_lat /\ args[2] # result.center_lon
  /\ result.digipin # <<>>

\* C2: encode fails, with an empty code, empty bounds and the out-of-bounds
\* message, exactly when the latitude is outside [2.5, 38.5] or the longitude
\* outside [63.5, 99.5]; inside the box, edges and corners included, it
\* returns a code of 10 characters.
C2_FailsIffOutside ==
  EncodeDone =>
    LET outside == \/ FLess(args[1], F(MIN_LAT)) \/ FLess(F(MAX_LAT), args[1])
                   \/ FLess(args[2], F(MIN_LON)) \/ FLess(F(MAX_LON), args[2])
    IN  /\ outside =>
             /\ result.valid = FALSE
             /\ result.digipin = <<>>
             /\ DOMAIN result.bounds = {}
             /\ result.error[1] = "outside India bounds"
        /\ ~ outside =>
             /\ result.valid = TRUE
             /\ Len(result.digipin) = NUM_LEVELS
             /\ result.error = <<"None">>

\* one unit in the last place above the northern edge: a failure, not the
\* code of an edge cell
C2_Witness ==
  /\ EncodeDone /\ ~ result.valid /\ result.digipin = <<>>
  /\ args[1].hi = MAX_LAT /\ args[1].lo > 0

\* what the specification calls a valid string: after removing hyphens and
\* whitespace and uppercasing, 10 characters, all of them symbols
CleanedForm(s) == Upper(SelectSeq(s, LAMBDA c : c # "-" /\ c \notin Whitespace))

IsCodeString(s) ==
  /\ Len(CleanedForm(s)) = 10
  /\ \A i \in 1..Len(CleanedForm(s)) : CleanedForm(s)[i] \in Symbols

\* C3: validate, validate_with_details and decode agree on every string, and
\* accept it exactly when it is a code string; decode rejects every other
\* string with the detailed reason as its error.
C3_ValidIffCodeString ==
  /\ (pc = "done" /\ op = "validate") =>
       /\ result = IsCodeString(args[1])
       /\ result = ValidateWithDetails(args[1])[1]
       /\ result = Decode(args[1]).valid
  /\ (pc = "done" /\ op = "validate_with_details") =>
       result[1] = IsCodeString(args[1])
  /\ DecodeDone =>
       /\ result.valid = IsCodeString(args[1])
       /\ ~ result.valid => result.error = ValidateWithDetails(args[1])[2]

\* C4 as claimed: a coordinate exactly on a grid line between two sub-cells
\* goes to the lower-numbered row or column.
C4_TieToLowerIndex ==
  [][(pc = "encode_loop" /\ level < NUM_LEVELS) =>
       \A m \in 1..3 :
         /\ args[1] = F(win.max_lat - m * LatStep(win)) => row' = m - 1
         /\ args[2] = F(win.min_lon + m * LonStep(win)) => col' = m - 1]_vars

\* C4 as amended: a coordinate exactly on a grid line between two sub-cells
\* goes to the higher-numbered row or column, the lower-latitude cell for a
\* latitude line and the higher-longitude cell for a longitude line.
C4_TieToHigherIndex ==
  [][(pc = "encode_loop" /\ level < NUM_LEVELS) =>
       \A m \in 1..3 :
         /\ args[1] = F(win.max_lat - m * LatStep(win)) =>
              /\ row' = m
              /\ win'.max_lat = args[1].hi
         /\ args[2] = F(win.min_lon + m * LonStep(win)) =>
              /\ col' = m
              /\ win'.min_lon = args[2].hi]_vars

\* an iteration below the first level has put a latitude that lies on an
\* inner grid line on the top edge of the chosen cell
C4_Witness ==
  /\ pc = "encode_loop" /\ level >= 2
  /\ row \in 1..3
  /\ args[1] = F(win.max_lat)

Inside(a, b) ==
  /\ b.min_lat <= a.min_lat /\ a.max_lat <= b.max_lat
  /\ b.min_lon <= a.min_lon /\ a.max_lon <= b.max_lon

\* C5: monotonic containment.  In encode and in decode every iteration leaves
\* a window that lies inside the window before it and has a quarter of its
\* latitude span and a quarter of its longitude span.
C5_MonotonicContainment ==
  [][(pc \in {"encode_loop", "decode_loop"} /\ level' = level + 1) =>
       /\ Inside(win', win)
       /\ 4 * (win'.max_lat - win'.min_lat) = win.max_lat - win.min_lat
       /\ 4 * (win'.max_lon - win'.min_lon) = win.max_lon - win.min_lon
       /\ win'.min_lat < win'.max_lat /\ win'.min_lon < win'.max_lon]_vars

\* decode has processed all 10 characters, the last one in row 3, column 3
C5_Witness ==
  /\ pc = "decode_loop" /\ level = NUM_LEVELS
  /\ row = 3 /\ col = 3
  /\ win.max_lat - win.min_lat = StepAt(NUM_LEVELS)

\* C6: at every level of encode the row and the column are in 0..3, and encode
\* returns 10 characters of the alphabet, which validate accepts.
C6_RowColInRange ==
  /\ op = "encode" =>
       /\ row \in 0..3 /\ col \in 0..3
       /\ Len(digipin_chars) = level
       /\ \A i \in 1..Len(digipin_chars) : digipin_chars[i] \in Symbols
  /\ (EncodeDone /\ result.valid) =>
       /\ Len(result.digipin) = 10
       /\ \A i \in 1..10 : result.digipin[i] \in Symbols
       /\ Validate(result.digipin)

\* the south-west corner of the box: row 3 at every level, by the clamp
C6_Witness ==
  /\ EncodeDone /\ result.valid
  /\ args[1] = F(MIN_LAT)
  /\ \A i \in 1..10 : CHAR_TO_POSITION[result.digipin[i]][1] = 3

\* C7: bounded error.  The bounds encode returns contain the coordinate, and
\* the centre encode returns, which is the centre decode returns for the
\* code, is within half a level-10 cell of the coordinate on each axis.
HalfCell == StepAt(NUM_LEVELS) \div 2

C7_BoundedError ==
  (EncodeDone /\ result.valid) =>
    /\ FLeq(F(result.bounds.min_lat), args[1])
    /\ FLeq(args[1], F(result.bounds.max_lat))
    /\ FLeq(F(result.bounds.min_lon), args[2])
    /\ FLeq(args[2], F(result.bounds.max_lon))
    /\ FLeq(F(result.center_lat.hi - HalfCell), args[1])
    /\ FLeq(args[1], F(result.center_lat.hi + HalfCell))
    /\ FLeq(F(result.center_lon.hi - HalfCell), args[2])
    /\ FLeq(args[2], F(result.center_lon.hi + HalfCell))
    /\ Decode(result.digipin).center_lat = result.center_lat
    /\ Decode(result.digipin).center_lon = result.center_lon

\* C8: formatting.  Every successful result has formatted = XXX-XXX-XXXX built
\* from its digipin; removing the hyphens gives the digipin back; formatting
\* the formatted or the lowercase form gives the same string.
C8_Formatting ==
  /\ (pc = "done" /\ op \in {"encode", "decode"} /\ result.valid) =>
       /\ result.formatted =
            SubSeq(result.digipin, 1, 3) \o <<"-">> \o SubSeq(result.digipin, 4, 6)
              \o <<"-">> \o SubSeq(result.digipin, 7, 10)
       /\ Len(result.formatted) = 12
       /\ Remove(result.formatted, "-") = result.digipin
       /\ FormatDigipin(result.formatted) = result.formatted
       /\ FormatDigipin([i \in 1..10 |-> LowerChar(result.digipin[i])])
            = result.formatted
  /\ (pc = "done" /\ op = "_format_digipin" /\ Validate(args[1])) =>
       /\ result = FormatDigipin(Upper(Remove(Remove(Strip(args[1]), "-"), " ")))
       /\ FormatDigipin(result) = result
       /\ Len(result) = 12 /\ result[4] = "-" /\ result[8] = "-"

\* a lowercase code has been formatted
C8_Witness ==
  /\ pc = "done" /\ op = "_format_digipin"
  /\ Len(args[1]) = 10 /\ args[1] # Upper(args[1])
  /\ Len(result) = 12 /\ result = Upper(result)


\* the call made was given an invalid code or an out-of-bounds coordinate
CallFailed ==
  CASE op \in {"encode", "encode_digipin"} ->
         ~ (/\ FLeq(F(MIN_LAT), args[1]) /\ FLeq(args[1], F(MAX_LAT))
            /\ FLeq(F(MIN_LON), args[2]) /\ FLeq(args[2], F(MAX_LON)))
    [] op \in {"decode", "decode_digipin", "get_neighbors", "distance_from_coords"} ->
         ~ Validate(args[1])
    [] op \in {"distance_between", "digipin_distance"} ->
         ~ Validate(args[1]) \/ ~ Validate(args[2])
    [] OTHER -> FALSE

\* the value returned is the one the entry point returns for a failure
FailureOutcome ==
  CASE op \in {"encode", "decode"} -> ~ result.valid /\ result.error # <<"None">>
    [] op = "encode_digipin" -> result = <<>>
    [] op = "decode_digipin" -> result = <<F(0), F(0)>>
    [] op = "get_neighbors" -> result = <<>>
    [] op \in {"distance_between", "distance_from_coords"} -> result.is_none
    [] op = "digipin_distance" -> result = -1
    [] OTHER -> FALSE

FailingOps ==
  {"encode", "decode", "encode_digipin", "decode_digipin", "get_neighbors",
   "distance_between", "distance_from_coords", "digipin_distance"}

\* C9 as amended: every entry point returns for a failure a value that no
\* successful call returns (valid = False with an error, None, the empty
\* string, the empty list, -1, and for decode_digipin the pair (0, 0)).
C9_FailureIsDistinct ==
  (pc = "done" /\ op \in FailingOps) => (FailureOutcome <=> CallFailed)

\* C9 as claimed: moreover no failure is replaced by a zero value that looks
\* valid, that is, by a coordinate pair the module's Coordinates accepts.
C9_NoValidLookingZero ==
  /\ C9_FailureIsDistinct
  /\ (pc = "done" /\ op = "decode_digipin" /\ CallFailed) =>
       ~ CoordinatesAccepts(result[1], result[2])

\* two valid codes of the same cell: the distance returned is 0, not the
\* value -1 that stands for a failure
C9_Witness ==
  /\ pc = "done" /\ op = "digipin_distance"
  /\ ~ CallFailed /\ result = 0

\* C10: distance symmetry.  distance_between(A, B) and distance_between(B, A)
\* both are None when either code is invalid and else are the same number,
\* and the distance from a valid code to itself is 0.
C10_DistanceSymmetry ==
  (pc = "done" /\ op = "distance_between") =>
    /\ result = DistanceBetween(args[2], args[1])
    /\ result.is_none <=> (~ Validate(args[1]) \/ ~ Validate(args[2]))
    /\ ~ result.is_none => result.value >= 0
    /\ (Validate(args[1]) /\ CleanDigipin(args[1]) = CleanDigipin(args[2])) =>
         result = Some(0)

\* two valid codes of different cells far apart
C10_Witness ==
  /\ pc = "done" /\ op = "distance_between"
  /\ ~ result.is_none /\ result.value > 100000
  /\ Decode(args[1]).center_lat # Decode(args[2]).center_lat


\* the eight offsets (lat_off, lon_off) in the order the list is built
NeighborOrder ==
  << <<-1, -1>>, <<-1, 0>>, <<-1, 1>>, <<0, -1>>, <<0, 1>>, <<1, -1>>, <<1, 0>>, <<1, 1>> >>

\* the candidate point of offset k of the cell r: its center moved by the
\* latitude span and the longitude span of the cell
Candidate(r, k) ==
  [lat |-> r.center_lat.hi + NeighborOrder[k][1] * (r.bounds.max_lat - r.bounds.min_lat),
   lon |-> r.center_lon.hi + NeighborOrder[k][2] * (r.bounds.max_lon - r.bounds.min_lon)]

CandidateInBox(r, k) ==
  /\ MIN_LAT <= Candidate(r, k).lat /\ Candidate(r, k).lat <= MAX_LAT
  /\ MIN_LON <= Candidate(r, k).lon /\ Candidate(r, k).lon <= MAX_LON

\* the offsets whose candidate is in the box, in order
KeptOffsets(r) == SelectSeq(<<1, 2, 3, 4, 5, 6, 7, 8>>, LAMBDA k : CandidateInBox(r, k))

\* C11: get_neighbors returns for a valid code, in the fixed order of the
\* offsets, one valid code for each offset whose candidate point lies in the
\* bounding box (the code of the cell that holds the candidate) and nothing for
\* the other offsets, so at most 8 entries; for an invalid code the empty list.
C11_Neighbors ==
  (pc = "done" /\ op = "get_neighbors") =>
    IF ~ Validate(args[1])
      THEN result = <<>>
      ELSE LET r == Decode(args[1])
               kept == KeptOffsets(r)
           IN  /\ Len(result) = Len(kept)
               /\ Len(result) <= 8
               /\ \A i \in 1..Len(result) :
                    /\ Validate(result[i])
                    /\ LET b == Decode(result[i]).bounds
                           p == Candidate(r, kept[i])
                       IN  /\ b.min_lat <= p.lat /\ p.lat <= b.max_lat
                           /\ b.min_lon <= p.lon /\ p.lon <= b.max_lon

\* a cell on the edge of the box: some offsets give a code, some give none
C11_Witness ==
  /\ pc = "done" /\ op = "get_neighbors" /\ Validate(args[1])
  /\ Len(result) > 0 /\ Len(result) < 8


\* calculate has been called and has returned or raised
Calculated == confidence.called = "calculate"

\* ... and has returned a ConfidenceResult
Scored == Calculated /\ ~ IsRaised(confidence.returned)

\* the weights w given to __init__ are a mapping with entries
GivenWeights(w) == w # None /\ w # EmptyDict

\* the sum of the four weights differs from 1.0 by more than 0.001
SumOffTolerance(w) ==
  LET weight_sum == w.delivery_success + w.spatial_consistency
                      + w.temporal_freshness + w.physical_verification
  IN  weight_sum - ScoreOne > ScoreOne \div 1000
        \/ ScoreOne - weight_sum > ScoreOne \div 1000

C13_ScoreRange ==
  Calculated =>
    /\ ~ IsRaised(confidence.returned)
    /\ 0 <= confidence.returned.score
    /\ confidence.returned.score <= 100 * 100

\* the delivery_success raw value of a delivery list
DsrOf(deliveries) == CalculateDeliverySuccess(deliveries).value

\* C14: DSR monotonicity.  Appending one DELIVERED record to a delivery list
\* never decreases the delivery_success raw value.
C14_DsrMonotonic ==
  [][(/\ Len(address'.deliveries) = Len(address.deliveries) + 1
      /\ SubSeq(address'.deliveries, 1, Len(address.deliveries)) = address.deliveries
      /\ address'.deliveries[Len(address'.deliveries)].status = DELIVERED)
       => DsrOf(address'.deliveries) >= DsrOf(address.deliveries)]_vars

\* a DELIVERED record has been added to a list with a FAILED delivery: the
\* raw value has risen from 0.0 to 0.5
C14_Witness ==
  /\ Len(address.deliveries) = 2
  /\ address.deliveries[1].status = FAILED
  /\ address.deliveries[2].status = DELIVERED
  /\ DsrOf(address.deliveries) = ScoreOne \div 2
  /\ DsrOf(SubSeq(address.deliveries, 1, 1)) = 0

\* C15: in every ConfidenceResult each of the four components has raw_value in
\* [0.0, 1.0] and weighted_value = raw_value * weight (all quality scores of
\* the histories are in [0, 1]).
C15_ComponentRange ==
  Scored =>
    \A k \in 1..Len(ComponentNames) :
      LET c == confidence.returned.components[ComponentNames[k]]
      IN  /\ 0 <= c.raw_value /\ c.raw_value <= ScoreOne
          /\ c.weighted_value = c.raw_value * c.weight
          /\ c.weight = calculator.weights[ComponentNames[k]]

\* C16: scoring never fails.  On every constructed calculator calculate
\* returns a ConfidenceResult whose components are exactly the four.
C16_NeverFails ==
  Calculated =>
    /\ "components" \in DOMAIN confidence.returned
    /\ DOMAIN confidence.returned.components =
         {"delivery_success", "spatial_consistency", "temporal_freshness",
          "physical_verification"}


\* the six lines in their order, each with its trigger on the result r for
\* the address a
SixLines(r, a) ==
  << <<RecDelivery, 10 * r.components.delivery_success.raw_value < 7 * ScoreOne>>,
     <<RecSpatial, 10 * r.components.spatial_consistency.raw_value < 7 * ScoreOne>>,
     <<RecStale, 2 * r.components.temporal_freshness.raw_value < ScoreOne>>,
     <<RecPhysical, 2 * r.components.physical_verification.raw_value < ScoreOne>>,
     <<RecNoDeliveries, a.deliveries = <<>> >>,
     <<RecNoVerifications, a.verifications = <<>> >> >>

\* the lines of q whose trigger holds, from line k on
RECURSIVE Triggered(_, _)
Triggered(q, k) ==
  IF k > Len(q) THEN <<>>
  ELSE IF q[k][2] THEN <<q[k][1]>> \o Triggered(q, k + 1)
  ELSE Triggered(q, k + 1)

\* C17: recommendations.  The list returned is the six fixed lines in their
\* order (DSR, SC, stale, PVS, no delivery history, no physical verification)
\* with exactly the lines left out whose trigger does not hold: DSR raw < 0.7,
\* SC raw < 0.7, TF raw < 0.5, PVS raw < 0.5, deliveries empty, verifications
\* empty; no line is repeated.
C17_Recommendations ==
  Scored =>
    /\ confidence.returned.recommendations =
         Triggered(SixLines(confidence.returned, address), 1)
    /\ \A i, j \in 1..Len(confidence.returned.recommendations) :
         i # j => confidence.returned.recommendations[i]
                    # confidence.returned.recommendations[j]

\* a result with two of the six lines: deliveries that went well and no
\* verification
C17_Witness ==
  /\ Scored
  /\ confidence.returned.components.delivery_success.raw_value = ScoreOne
  /\ confidence.returned.recommendations = <<RecPhysical, RecNoVerifications>>

\* the grade of a score in hundredths, by the ranges
GradeByRange(score) ==
  CASE score >= 9000 -> <<"A+", "Excellent - Highly Reliable">>
    [] score >= 8000 /\ score < 9000 -> <<"A", "Very Good - Reliable">>
    [] score >= 7000 /\ score < 8000 -> <<"B", "Good - Mostly Reliable">>
    [] score >= 6000 /\ score < 7000 -> <<"C", "Fair - Moderately Reliable">>
    [] score >= 5000 /\ score < 6000 -> <<"D", "Poor - Low Reliability">>
    [] score < 5000 -> <<"F", "Fail - Unreliable">>

\* C18: grading.  The grade of a result is the grade of the range its final
\* score lies in (A+ from 90, A from 80, B from 70, C from 60, D from 50, F
\* below), grade_description is the text of that grade, and get_grade(score)
\* returns the same letter for every score in [0, 100].
C18_Grading ==
  /\ Scored =>
       /\ confidence.returned.grade = GradeByRange(confidence.returned.score)[1]
       /\ confidence.returned.grade_description
            = GradeByRange(confidence.returned.score)[2]
  /\ confidence.called = "get_grade" =>
       /\ confidence.returned = GradeByRange(confidence.score)[1]
       /\ confidence.returned = GetGrade(confidence.score)[1]

\* a result just below a threshold: its score is in [80, 90) and its grade A
C18_Witness ==
  /\ Scored
  /\ confidence.returned.score >= 8000 /\ confidence.returned.score < 9000
  /\ confidence.returned.grade = "A"

\* calculate has been called with the default weights, half-life and
\* reference distance
DefaultCalculator ==
  /\ given # <<>> /\ given[1] = None
  /\ given[2] = 180 /\ given[3] = 50

ScenarioTwoScored ==
  /\ Calculated /\ DefaultCalculator
  /\ address \in ScenarioInputs
  /\ confidence.as_of_date = 0

\* C20 as claimed: scenario 2 gives DSR 0.80, TF about 0.962, a score between
\* 85 and 86 and grade A.
C20_ScenarioTwoGradeA ==
  ScenarioTwoScored =>
    LET r == confidence.returned
    IN  /\ ~ IsRaised(r)
        /\ 10 * r.components.delivery_success.raw_value = 8 * ScoreOne
        /\ r.components.temporal_freshness.raw_value >= 9610
        /\ r.components.temporal_freshness.raw_value <= 9630
        /\ r.score >= 8500 /\ r.score <= 8600
        /\ r.grade = "A"

\* C20 as amended: scenario 2 gives DSR 0.80, TF at least 0.962 (about 0.962
\* when no DELIVERED delivery is newer than the verification), a score
\* between 90 and 91.5 and grade A+.
C20_ScenarioTwoGradeAPlus ==
  ScenarioTwoScored =>
    LET r == confidence.returned
    IN  /\ ~ IsRaised(r)
        /\ 10 * r.components.delivery_success.raw_value = 8 * ScoreOne
        /\ r.components.temporal_freshness.raw_value >= 9610
        /\ (\A i \in 1..Len(address.deliveries) :
              address.deliveries[i].timestamp <= -10) =>
             r.components.temporal_freshness.raw_value <= 9630
        /\ r.score >= 9000 /\ r.score <= 9150
        /\ r.grade = "A+"

\* scenario 2 with deliveries older than the verification has been scored
C20_Witness ==
  /\ ScenarioTwoScored /\ Scored
  /\ \A i \in 1..Len(address.deliveries) : address.deliveries[i].timestamp <= -10
  /\ confidence.returned.grade = "A+"

\* the value the call op(a) returns when it runs alone
Alone(name, a) ==
  CASE name = "encode" -> Encode(a[1], a[2])
    [] name = "decode" -> Decode(a[1])
    [] name = "validate" -> Validate(a[1])
    [] name = "get_neighbors" -> GetNeighbors(a[1])
    [] name = "calculate" -> Calculate(SharedCalculator, a[1], a[2])

\* C21: call independence.  Whatever calls of encode, decode, validate,
\* get_neighbors and calculate run at the same time on the shared validator,
\* lookup table, calculator and AddressData, every call returns what it
\* returns when it runs alone, a function of its arguments only, and the
\* lookup table, the fields of the instances and the AddressData given are
\* never written.
C21_CallIndependence ==
  /\ table = CHAR_TO_POSITION
  /\ validator = FullWindow
  /\ scoring.calculator = SharedCalculator
  /\ \A c \in Callers :
       /\ calls[c].op = "calculate" => scoring.address = calls[c].args[1]
       /\ calls[c].pc = "done" =>
            calls[c].result = Alone(calls[c].op, calls[c].args)

\* C21 witness: one caller's encode has returned a code while another
\* caller's decode of another cell is in the middle of its loop.
C21_Witness ==
  \E c \in Callers, d \in Callers :
    /\ c # d
    /\ calls[c].pc = "done" /\ calls[c].op = "encode" /\ calls[c].result.valid
    /\ calls[d].pc = "decode_loop"
    /\ frames[d].level \in 1..(NUM_LEVELS - 1)
    /\ Upper(CleanDigipin(calls[d].args[1])) # calls[c].result.digipin

\* C22: encode and decode walk the same windows.  After the k-th symbol, for
\* every k up to 10, the window of encode's loop is the window decode's loop
\* has after the same k symbols, and decoding the code encode returns gives the
\* same digipin, formatted string, bounds and centre as encode returned.
C22_SameWindows ==
  /\ pc = "encode_loop" =>
       /\ Len(digipin_chars) = level
       /\ win = DecodeLoop(digipin_chars, level)
  /\ (EncodeDone /\ result.valid) =>
       LET d == Decode(result.digipin)
       IN  /\ d.valid
           /\ d.digipin = result.digipin
           /\ d.formatted = result.formatted
           /\ d.bounds = result.bounds
           /\ d.center_lat = result.center_lat
           /\ d.center_lon = result.center_lon

\* C22 witness: encode has returned the code of a point that is not on the
\* northern or the western edge of the box, so that its windows have moved in
\* both directions.
C22_Witness ==
  /\ EncodeDone /\ result.valid
  /\ result.bounds.max_lat < MAX_LAT /\ result.bounds.min_lon > MIN_LON
  /\ Decode(result.digipin).bounds = result.bounds

\* the number of deliveries of the address with the status s
CountStatus(s) ==
  Cardinality({i \in 1..Len(address.deliveries) : address.deliveries[i].status = s})

\* C23: delivery success rate.  With N deliveries that are not PENDING the
\* delivery_success raw value is (100 * #DELIVERED + 50 *
\* #DELIVERED_WITH_DIFFICULTY) / (100 * N) with data_points N, and 0.0 with
\* data_points 0 when N = 0; it is the value of the history with every PENDING
\* record removed.
C23_DeliverySuccessRate ==
  Scored =>
    LET c == confidence.returned.components.delivery_success
        n == Len(address.deliveries) - CountStatus(PENDING)
        kept == SelectSeq(address.deliveries, LAMBDA d : d.status # PENDING)
    IN  /\ c.data_points = n
        /\ n = 0 => c.raw_value = 0
        /\ n > 0 =>
             c.raw_value =
               ((100 * CountStatus(DELIVERED)
                   + 50 * CountStatus(DELIVERED_WITH_DIFFICULTY)) * ScoreOne)
                 \div (100 * n)
        /\ c.raw_value = CalculateDeliverySuccess(kept).value
        /\ c.data_points = CalculateDeliverySuccess(kept).data_points

\* C23 witness: a history with a PENDING record and a DELIVERED_WITH_DIFFICULTY
\* record has been scored: raw value 0.5 on one data point.
C23_Witness ==
  /\ Scored
  /\ CountStatus(PENDING) = 1 /\ CountStatus(DELIVERED_WITH_DIFFICULTY) = 1
  /\ Len(address.deliveries) = 2
  /\ confidence.returned.components.delivery_success.raw_value = ScoreOne \div 2
  /\ confidence.returned.components.delivery_success.data_points = 1

\* the positions of the verified entries of the address
VerifiedEntries ==
  {i \in 1..Len(address.verifications) : address.verifications[i].verified}

\* the positions of the most recent verified entries
LatestVerified ==
  {i \in VerifiedEntries :
     \A j \in VerifiedEntries :
       address.verifications[j].timestamp <= address.verifications[i].timestamp}

\* no successful delivery is more recent than the timestamp t
MostRecentSuccess(t) ==
  \A i \in 1..Len(address.deliveries) :
    address.deliveries[i].status \in {DELIVERED, DELIVERED_WITH_DIFFICULTY}
      => address.deliveries[i].timestamp <= t

\* the decay factor of temporal freshness after d whole days
DecayAfter(d) == Exp(- LambdaTimes(Max(0, d), calculator.half_life_days)).value

\* C24: physical verification.  The raw value is 0.1 when no verification is
\* verified; otherwise it is the quality score of the latest verified entry
\* times the decay factor of temporal freshness for the whole days since its
\* timestamp, floored at 0, so that it is quality_score times the
\* temporal_freshness raw value whenever that verification is the most recent
\* successful event.
C24_PhysicalVerification ==
  Scored =>
    LET pvs == confidence.returned.components.physical_verification.raw_value
        tf == confidence.returned.components.temporal_freshness.raw_value
    IN  /\ VerifiedEntries = {} => pvs = ScoreOne \div 10
        /\ VerifiedEntries # {} =>
             \E i \in LatestVerified :
               LET v == address.verifications[i]
                   days == confidence.as_of_date - v.timestamp
               IN  /\ pvs = (v.quality_score * DecayAfter(days)) \div ScoreOne
                   /\ MostRecentSuccess(v.timestamp) =>
                        pvs = (v.quality_score * tf) \div ScoreOne

\* the timestamps of the successful events of the address: the DELIVERED and
\* DELIVERED_WITH_DIFFICULTY deliveries and the verified verifications
SuccessTimes ==
  {address.deliveries[i].timestamp :
     i \in {j \in 1..Len(address.deliveries) :
              address.deliveries[j].status \in {DELIVERED, DELIVERED_WITH_DIFFICULTY}}}
    \cup {address.verifications[i].timestamp : i \in VerifiedEntries}

\* whole days from the latest successful event to as_of_date, floored at 0
DaysSinceSuccess ==
  Max(0, confidence.as_of_date
           - (CHOOSE t \in SuccessTimes : \A u \in SuccessTimes : u <= t))

\* C25: temporal freshness.  The raw value is 0.0 when the history has no
\* successful event; otherwise it depends only on d, the whole days from the
\* latest successful event to as_of_date floored at 0: it is 1.0 when d = 0,
\* half as much 180 days later, and never more one day later.  FAILED and
\* PENDING deliveries and unverified verifications play no part.
C25_TemporalFreshness ==
  Scored =>
    LET tf == confidence.returned.components.temporal_freshness.raw_value
    IN  /\ SuccessTimes = {} => tf = 0
        /\ SuccessTimes # {} =>
             /\ tf = DecayAfter(DaysSinceSuccess)
             /\ DaysSinceSuccess = 0 => tf = ScoreOne
             /\ DecayAfter(DaysSinceSuccess + DEFAULT_HALF_LIFE_DAYS) = tf \div 2
             /\ DecayAfter(DaysSinceSuccess + 1) <= tf

\* C25 witness: a history whose last successful event is older than a FAILED
\* delivery and more than 180 days before as_of_date has been scored: the raw
\* value is below one half.
C25_Witness ==
  /\ Scored
  /\ \E i \in 1..Len(address.deliveries) :
       /\ address.deliveries[i].status = FAILED
       /\ \A t \in SuccessTimes : t < address.deliveries[i].timestamp
  /\ SuccessTimes # {}
  /\ DaysSinceSuccess > DEFAULT_HALF_LIFE_DAYS
  /\ confidence.returned.components.temporal_freshness.raw_value < ScoreOne \div 2
  /\ confidence.returned.components.temporal_freshness.raw_value > 0

\* the sum of weight * raw_value over the four components of the result
WeightedTotal ==
  LET names == {ComponentNames[i] : i \in 1..Len(ComponentNames)}
  IN  SumValues([k \in names |->
                   calculator.weights[k] * confidence.returned.components[k].raw_value],
                names)

\* C26: combination.  The score is 100 times the sum of weight * raw_value
\* over the four components, clamped to [0, 100] and rounded to two decimal
\* places; rounding first and clamping afterwards, as the code does, gives the
\* same score.
C26_Combination ==
  Scored =>
    LET clamped == Max(0, Min(100 * 100 * ScoreOne, WeightedTotal))
        score == confidence.returned.score
    IN  /\ score = RoundScore(clamped)
        /\ score = Max(0, Min(100 * 100, RoundScore(WeightedTotal)))
        /\ 2 * Abs(score * ScoreOne - clamped) <= ScoreOne

\* C26 witness: a weighted sum above 1.0 and not a whole number of hundredths
\* has been scored 100.
C26_Witness ==
  /\ Scored
  /\ WeightedTotal > ScoreOne * ScoreOne
  /\ WeightedTotal % ScoreOne # 0
  /\ confidence.returned.score = 100 * 100

\* the sequence q with its entries i and j exchanged
Exchanged(q, i, j) ==
  [k \in 1..Len(q) |-> IF k = i THEN q[j] ELSE IF k = j THEN q[i] ELSE q[k]]

\* the histories that differ from the address by one exchange of two
\* deliveries or of two verifications
Reordered ==
  {[address EXCEPT !.deliveries = Exchanged(@, i, j)] :
     i \in 1..Len(address.deliveries), j \in 1..Len(address.deliveries)}
    \cup {[address EXCEPT !.verifications = Exchanged(@, i, j)] :
            i \in 1..Len(address.verifications), j \in 1..Len(address.verifications)}

\* what C27 compares: score, grade, raw values, coverage and recommendations
Compared(r) ==
  IF IsRaised(r) THEN r
  ELSE [score |-> r.score, grade |-> r.grade,
        raw_values |-> [k \in DOMAIN r.components |-> r.components[k].raw_value],
        coverage |-> r.coverage, recommendations |-> r.recommendations]

\* C27: order independence.  For every history, whether or not its timestamps
\* are distinct, the score, the grade, the four raw values, the coverage flags
\* and the recommendations are the same after any reordering of the deliveries
\* and of the verifications.
C27_OrderIndependence ==
  Calculated =>
    \A a \in Reordered :
      Compared(Calculate(calculator, a, confidence.as_of_date))
        = Compared(confidence.returned)

\* the cells a and b, given by their bounds, have the same size and share an
\* edge or a corner
SharesEdgeOrCorner(a, b) ==
  /\ b.max_lat - b.min_lat = a.max_lat - a.min_lat
  /\ b.max_lon - b.min_lon = a.max_lon - a.min_lon
  /\ Abs(b.min_lat - a.min_lat) \in {0, a.max_lat - a.min_lat}
  /\ Abs(b.min_lon - a.min_lon) \in {0, a.max_lon - a.min_lon}
  /\ b # a

\* the number of cells of its level around the cell with the bounds a that
\* lie in the bounding box
CellsAround(a) ==
  Cardinality({d \in {-1, 0, 1} \X {-1, 0, 1} :
                 /\ d # <<0, 0>>
                 /\ a.min_lat + d[1] * (a.max_lat - a.min_lat) >= MIN_LAT
                 /\ a.max_lat + d[1] * (a.max_lat - a.min_lat) <= MAX_LAT
                 /\ a.min_lon + d[2] * (a.max_lon - a.min_lon) >= MIN_LON
                 /\ a.max_lon + d[2] * (a.max_lon - a.min_lon) <= MAX_LON})

\* C28: get_neighbors is the 8-adjacency of the cells of the deepest level.
\* For a valid code A it lists the codes of exactly the cells that share an
\* edge or a corner with the cell of A inside the box, each once and never A
\* itself (8 of them, 5 on an edge, 3 in a corner), and A is in the list
\* get_neighbors returns for every code B of the list.
C28_Adjacency ==
  (pc = "done" /\ op = "get_neighbors" /\ Validate(args[1])) =>
    LET a == Decode(args[1])
    IN  /\ Len(result) = CellsAround(a.bounds)
        /\ Len(result) \in {8, 5, 3}
        /\ \A i \in 1..Len(result) :
             /\ result[i] # a.digipin
             /\ \A j \in 1..Len(result) : result[i] = result[j] => i = j
             /\ SharesEdgeOrCorner(a.bounds, Decode(result[i]).bounds)
             /\ \E k \in 1..Len(GetNeighbors(result[i])) :
                  GetNeighbors(result[i])[k] = a.digipin

\* C28 witness: the neighbors of a cell in a corner of the box have been
\* listed: three codes.
C28_Witness ==
  /\ pc = "done" /\ op = "get_neighbors" /\ Validate(args[1])
  /\ Len(result) = 3
  /\ CellsAround(Decode(args[1]).bounds) = 3

\* C29: for every history whose quality scores are in [0, 1] and every
\* as_of_date, if the history has a verified verification then the
\* physical_verification raw value is at most the temporal_freshness raw
\* value.
C29_PhysicalAtMostFreshness ==
  (Scored /\ VerifiedEntries # {}) =>
    confidence.returned.components.physical_verification.raw_value
      <= confidence.returned.components.temporal_freshness.raw_value

\* the line is among the recommendations of the result
Recommends(line) ==
  \E i \in 1..Len(confidence.returned.recommendations) :
    confidence.returned.recommendations[i] = line

\* C30: coverage and recommendations are consistent.  Without deliveries the
\* delivery-success line and the spatial-consistency line are both present and
\* has_coordinates is false; without verifications the line asking for a
\* physical verification is present; is_recent is never true together with the
\* stale-data line.
C30_CoverageConsistent ==
  Scored =>
    LET coverage == confidence.returned.coverage
    IN  /\ ~ coverage.has_deliveries =>
             /\ Recommends(RecDelivery) /\ Recommends(RecSpatial)
             /\ ~ coverage.has_coordinates
        /\ ~ coverage.has_verifications => Recommends(RecPhysical)
        /\ ~ (coverage.is_recent /\ Recommends(RecStale))
        /\ coverage.has_deliveries = (address.deliveries # <<>>)
        /\ coverage.has_verifications = (address.verifications # <<>>)

\* C30 witness: a history with a recent verification and no delivery has been
\* scored: both delivery lines are present and the stale-data line is not.
C30_Witness ==
  /\ Scored
  /\ address.deliveries = <<>> /\ address.verifications # <<>>
  /\ confidence.returned.coverage.is_recent
  /\ Recommends(RecDelivery) /\ Recommends(RecSpatial) /\ ~ Recommends(RecStale)

====
